---- MODULE Spec2Model ----
(***************************************************************************)
(* A model of the ICF template scripts of the CI/CD flow:                  *)
(*   .github/scripts/create_icf_issue.py     (Publisher, Parser)           *)
(*   .github/scripts/prepare_icf_template.py (Walker, Selector, Parser)    *)
(*                                                                         *)
(* Seven specifications share the module:                                  *)
(*   SpecPub    the find-or-create Publisher against the issue tracker     *)
(*   SpecWalk   the archive-aware tree walker over a file system           *)
(*   SpecSel    the candidate selector                                     *)
(*   SpecParse  the key=value template parser                              *)
(*   SpecShort  the parser and the walker on degenerate inputs             *)
(*   SpecJob    one run of create_icf_issue.main, line by line             *)
(*   SpecPrep   prepare_icf_template.main from selection to outputs        *)
(***************************************************************************)
EXTENDS Integers, Sequences, FiniteSets, TLC

VARIABLES
  \* ---- Publisher: the remote tracker and the runs of create_icf_issue.main
  nextNumber,   \* the number the tracker gives to the next issue it creates
  tracked,      \* the issues the Publisher created: [number, title, open]
  run,          \* per run of main: its position, inputs and observable results
  \* ---- Walker: the file system and one process running prepare_icf_template.main
  fs,
  walk,
  \* ---- Selector
  sel,
  \* ---- Parser
  parse,
  \* ---- one process running create_icf_issue.main from its first line
  job,
  \* ---- one process running prepare_icf_template.main from its selection
  prep

pubVars == <<nextNumber, tracked, run>>
walkVars == <<fs, walk>>
selVars == <<sel>>
parseVars == <<parse>>
jobVars == <<job>>
prepVars == <<prep>>
vars == <<nextNumber, tracked, run, fs, walk, sel, parse, job, prep>>

Idle == "idle"

(***************************************************************************)
(*                      Characters and strings                             *)
(***************************************************************************)

\* The characters of the model's file names and template lines, in the order
\* of their code points. A string is a sequence of characters.
Alphabet ==
  <<" ", "#", "-", ".", "1", "2", "=", "P", "T", "X", "_", "a", "b", "c", "d", "e", "f", "g", "h", "i", "j", "k",
    "l", "m", "n", "o", "p", "q", "r", "s", "t", "u", "v", "w", "x", "y", "z">>

Code(c) == CHOOSE i \in 1..Len(Alphabet) : Alphabet[i] = c

\* str.__lt__: the order of Python strings, by code point.
RECURSIVE StrLess(_, _)
StrLess(a, b) ==
  IF a = <<>> THEN b # <<>>
  ELSE IF b = <<>> THEN FALSE
  ELSE IF Head(a) = Head(b) THEN StrLess(Tail(a), Tail(b))
  ELSE Code(Head(a)) < Code(Head(b))

RECURSIVE Ascending(_)
Ascending(names) ==
  IF names = {} THEN <<>>
  ELSE LET m == CHOOSE x \in names : \A y \in names \ {x} : StrLess(x, y)
       IN <<m>> \o Ascending(names \ {m})

Reversed(seq) == [i \in 1..Len(seq) |-> seq[Len(seq) + 1 - i]]

(***************************************************************************)
(*                              PUBLISHER                                  *)
(***************************************************************************)

\* per_page=100 of the list request.
PerPage == 100

\* Highest issue number the tracker hands out in the model.
MaxNumber == 204

\* The concurrent runs of main (two workflow runs, or a run and its re-run).
Runs == {"r1", "r2"}

\* Values of GITHUB_RUN_NUMBER.
RunNumbers == {41, 42}

\* Sizes of the batches of issues other users open between two steps.
ForeignBatch == {PerPage - 1, PerPage}

\* title = f"[CI] Completar ICF_JSON_OVERRIDES – Run #{run_number}"
Title(run_number) == <<"[CI] Completar ICF_JSON_OVERRIDES - Run #", run_number>>

\* html_url of issue n.
HtmlUrl(n) == <<"html_url", n>>

NoIssue == 0

\* The environment of main that decides its start-up: GITHUB_TOKEN and
\* GITHUB_REPOSITORY.
Tokens == {"", "tok"}
Repositories == {"", "norepo", "owner/repo"}

\* "/" not in repository
HasSlash(repository) == repository = "owner/repo"

\* Outcomes of one urlopen call inside github_request.
Outcomes == {"ok", "http_error", "url_error"}

\* Values of GITHUB_OUTPUT: not defined, the path of the output file.
OutputPaths == {"", "out"}

\* A run of main before its first step. listNext, closedAtList, openAtList and
\* page record what the tracker held when the run listed: the next number, the
\* closed and the open records with the run's title, and those of the open ones
\* that the response held. out holds the values the run reports (logs and hands
\* to set_output), written the lines set_output has appended to the output file.
InitRun ==
  [pc |-> "start", title |-> <<>>, listNext |-> 0, closedAtList |-> {},
   openAtList |-> {}, page |-> {}, existing |-> NoIssue, created |-> NoIssue, calls |-> <<>>,
   failed |-> "", out |-> <<>>, exit |-> -1, err |-> {},
   output_path |-> "", written |-> <<>>]

\* Open issues newer than issue n: every number the tracker handed out above n,
\* less the Publisher's issues that were closed (issues of other users stay open).
OpenNewerThan(n) ==
  (nextNumber - 1 - n) - Cardinality({x \in tracked : x.number > n /\ ~x.open})

\* GET /repos/{owner}/{repo}/issues?state=open&per_page=100 : the first page of
\* the open issues, newest first. Only the Publisher's own issues can carry a
\* run title, so the page is given by those of them that are on it.
ListResponseClosed ==
  {x \in tracked : ~x.open /\ OpenNewerThan(x.number) < PerPage}

ListResponseAll ==
  {x \in tracked : OpenNewerThan(x.number) < PerPage}

ListResponse ==
  {x \in tracked : x.open /\ OpenNewerThan(x.number) < PerPage}

\* next((issue for issue in issues if issue.get("title") == title), None):
\* the first match in the order of the response (newest first).
FindExistingNever(issues, title) == NoIssue

FindExisting(issues, title) ==
  LET match == {x.number : x \in {y \in issues : y.title = title}}
  IN IF match = {} THEN NoIssue
     ELSE CHOOSE n \in match : \A m \in match : m <= n

\* The error github_request raises for an HTTPError: the RuntimeError names
\* method, endpoint, status, reason and the response body. Any other failure of
\* urlopen (URLError) is not caught and leaves github_request as it is.
RaisedError(outcome) ==
  IF outcome = "http_error"
  THEN {"method", "endpoint", "status", "reason", "body"}
  ELSE {"reason"}

\* set_output("issue_number", ...); set_output("issue_url", ...)
IssueOutputs(n) == << <<"issue_number", n>>, <<"issue_url", HtmlUrl(n)>> >>

\* The output file is written whether GITHUB_OUTPUT is defined or not.
SetOutputAlways(output_path, outputs) == outputs

\* set_output, lines 118-123: nothing is written when GITHUB_OUTPUT is not
\* defined.
SetOutput(output_path, outputs) ==
  IF output_path = "" THEN <<>> ELSE outputs

\* main, lines 126-297: configuration, the list call and the find step.
MainList(r) ==
  /\ run[r].pc = "start"
  /\ \E token \in Tokens, repository \in Repositories,
        run_number \in RunNumbers, outcome \in Outcomes,
        output_path \in OutputPaths :
       LET title == Title(run_number)
           existing == FindExisting(ListResponse, title)
           base == [run[r] EXCEPT !.title = title, !.output_path = output_path]
       IN
       IF token = "" \/ repository = "" \/ ~HasSlash(repository)
       THEN run' = [run EXCEPT ![r] = [InitRun EXCEPT !.pc = "done", !.exit = 1]]
       ELSE IF outcome # "ok"
       THEN run' = [run EXCEPT ![r] =
                     [base EXCEPT !.pc = "aborted", !.calls = <<"GET">>,
                                  !.failed = "GET", !.exit = 1,
                                  !.err = RaisedError(outcome)]]
       ELSE LET listed == [base EXCEPT
                             !.calls = <<"GET">>,
                             !.listNext = nextNumber,
                             !.openAtList =
                               {x.number : x \in {y \in tracked :
                                                    y.open /\ y.title = title}},
                             !.closedAtList =
                               {x.number : x \in {y \in tracked : ~y.open}},
                             !.page =
                               {x.number : x \in {y \in ListResponse :
                                                    y.title = title}},
                             !.existing = existing]
            IN IF existing # NoIssue
               THEN run' = [run EXCEPT ![r] =
                             [listed EXCEPT !.pc = "done", !.exit = 0,
                                            !.out = IssueOutputs(existing),
                                            !.written =
                                              SetOutput(output_path,
                                                        IssueOutputs(existing))]]
               ELSE run' = [run EXCEPT ![r] = [listed EXCEPT !.pc = "creating"]]
  /\ UNCHANGED <<nextNumber, tracked>>

\* main, lines 299-313: the create call and its outputs.
MainCreate(r) ==
  /\ run[r].pc = "creating"
  /\ \E outcome \in Outcomes :
       IF outcome # "ok"
       THEN /\ run' = [run EXCEPT ![r] =
                        [@ EXCEPT !.pc = "aborted", !.calls = Append(@, "POST"),
                                  !.failed = "POST", !.exit = 1,
                                  !.err = RaisedError(outcome)]]
            /\ UNCHANGED <<nextNumber, tracked>>
       ELSE /\ tracked' = tracked \cup
                  {[number |-> nextNumber, title |-> run[r].title, open |-> TRUE]}
            /\ nextNumber' = nextNumber + 1
            /\ run' = [run EXCEPT ![r] =
                        [@ EXCEPT !.pc = "done", !.calls = Append(@, "POST"),
                                  !.created = nextNumber, !.exit = 0,
                                  !.out = IssueOutputs(nextNumber),
                                  !.written =
                                    SetOutput(run[r].output_path,
                                              IssueOutputs(nextNumber))]]

\* Other users open issues in the same repository.
ForeignOpen ==
  /\ \E k \in ForeignBatch :
       /\ nextNumber + k <= MaxNumber
       /\ nextNumber' = nextNumber + k
  /\ UNCHANGED <<tracked, run>>

\* "Cierra esta issue cuando los overrides estén listos": an operator closes one
\* of the Publisher's issues.
CloseIssue ==
  /\ \E x \in tracked :
       /\ x.open
       /\ tracked' = (tracked \ {x}) \cup {[x EXCEPT !.open = FALSE]}
  /\ UNCHANGED <<nextNumber, run>>

InitPub ==
  /\ nextNumber = 1
  /\ tracked = {}
  /\ run = [r \in Runs |-> InitRun]
  /\ fs = Idle /\ walk = Idle /\ sel = Idle /\ parse = Idle
  /\ job = Idle /\ prep = Idle

NextPub ==
  \/ \E r \in Runs : MainList(r) /\ UNCHANGED <<walkVars, selVars, parseVars, jobVars, prepVars>>
  \/ \E r \in Runs : MainCreate(r) /\ UNCHANGED <<walkVars, selVars, parseVars, jobVars, prepVars>>
  \/ ForeignOpen /\ UNCHANGED <<walkVars, selVars, parseVars, jobVars, prepVars>>
  \/ CloseIssue /\ UNCHANGED <<walkVars, selVars, parseVars, jobVars, prepVars>>

SpecPub == InitPub /\ [][NextPub]_vars

(***************************************************************************)
(*                     Claims about the Publisher                          *)
(***************************************************************************)

Done(r) == run[r].pc = "done" /\ run[r].exit = 0

SameTitlePairs ==
  {p \in Runs \X Runs : p[1] # p[2] /\ run[p[1]].title = run[p[2]].title}

RecordsTitled(title) == {x \in tracked : x.title = title}

\* C1: Publisher idempotency. When two invocations have the same title and the
\* record the first one created is in the list response of the second, the
\* tracker holds exactly one record with that title, the second invocation made
\* no create call, and both report the same issue number and url.
C1_PublisherIdempotent ==
  \A p \in SameTitlePairs :
    LET a == run[p[1]]
        b == run[p[2]]
    IN (Done(p[1]) /\ a.created # NoIssue /\ a.created \in b.page)
       => /\ b.pc = "done" /\ b.exit = 0
          /\ b.calls = <<"GET">>
          /\ b.created = NoIssue
          /\ b.out = a.out
          /\ b.out = IssueOutputs(a.created)
          /\ Cardinality(RecordsTitled(a.title)) = 1

C1_Witness ==
  \E p \in SameTitlePairs :
    /\ Done(p[1]) /\ Done(p[2])
    /\ run[p[1]].created # NoIssue
    /\ run[p[1]].created \in run[p[2]].page
    /\ run[p[2]].existing = run[p[1]].created

\* C2 (as claimed): Uniqueness of the tracker. In every reachable state, under
\* every interleaving of the list and create calls of the invocations, at most
\* one open record exists for a title.
C2_AtMostOneOpenPerTitle ==
  \A x \in tracked, y \in tracked :
    (x.open /\ y.open /\ x.title = y.title) => x.number = y.number

\* The open issues newer than issue n when run r listed.
NewerOpenAtList(r, n) ==
  (run[r].listNext - 1 - n)
    - Cardinality({c \in run[r].closedAtList : c > n})

Creator(n) == CHOOSE r \in Runs : run[r].created = n

\* C2 (amended): the Publisher creates a record only when its own list response
\* held no open record with the title. Two open records of one title exist only
\* if the creator of the later one listed before the earlier one was created
\* (overlapping invocations), or listed when PerPage or more newer open issues
\* had pushed the earlier one off the first page.
C2_SecondOnlyWhenFirstNotListed ==
  \A x \in tracked, y \in tracked :
    (x.open /\ y.open /\ x.title = y.title /\ x.number < y.number)
    => LET c == run[Creator(y.number)]
       IN /\ x.number \notin c.page
          /\ \/ c.listNext <= x.number
             \/ NewerOpenAtList(Creator(y.number), x.number) >= PerPage

\* A second open record of a title, created by a run that listed after the
\* first record was created and had left the first page.
C2_Witness ==
  \E x \in tracked, y \in tracked :
    /\ x.open /\ y.open /\ x.title = y.title /\ x.number < y.number
    /\ run[Creator(y.number)].listNext > x.number

Listed(r) == run[r].calls # <<>> /\ run[r].failed # "GET"

\* C3 (as claimed): Find step. Whenever the tracker holds, at the time of the
\* list call, an open record with the computed title, the Publisher reports
\* that record and makes no create call, whatever the number of other open
\* records.
C3_FindsAnyOpenRecord ==
  \A r \in Runs :
    (Listed(r) /\ run[r].openAtList # {})
    => /\ run[r].existing \in run[r].openAtList
       /\ run[r].calls = <<"GET">>
       /\ run[r].out = IssueOutputs(run[r].existing)

\* C3 (amended): whenever the list response (the first page of at most PerPage
\* open records, newest first) holds a record with the computed title, the
\* Publisher reports the number and url of the newest such record and makes no
\* create call; an open record with the title that is not on that page is not
\* found.
C3_FindsRecordOnFirstPage ==
  \A r \in Runs :
    Listed(r)
    => /\ run[r].page \subseteq run[r].openAtList
       /\ \A n \in run[r].openAtList :
            n \in run[r].page <=> NewerOpenAtList(r, n) < PerPage
       /\ IF run[r].page # {}
          THEN /\ run[r].existing \in run[r].page
               /\ \A n \in run[r].page : n <= run[r].existing
               /\ run[r].pc = "done" /\ run[r].exit = 0
               /\ run[r].calls = <<"GET">>
               /\ run[r].out = IssueOutputs(run[r].existing)
          ELSE run[r].existing = NoIssue

\* A record found although PerPage - 1 other open records are newer than it.
C3_Witness ==
  \E r \in Runs :
    /\ Listed(r) /\ run[r].existing # NoIssue
    /\ NewerOpenAtList(r, run[r].existing) = PerPage - 1
    /\ run[r].out = IssueOutputs(run[r].existing)

\* C4: Remote failure is fatal. Every failure of the list or the create call
\* aborts the run with a non-zero outcome and an error naming method, endpoint,
\* status, reason and response body; after a failed list no create call is
\* made, and after any failure no issue_number/issue_url output is written.
C4_RemoteFailureFatalAndDescribed ==
  \A r \in Runs :
    run[r].failed # ""
    => /\ run[r].pc = "aborted"
       /\ run[r].exit # 0 /\ run[r].exit # -1
       /\ {"method", "endpoint", "status", "reason", "body"} \subseteq run[r].err
       /\ run[r].out = <<>>
       /\ (run[r].failed = "GET" => run[r].calls = <<"GET">>)

\* The number of calls of one method a run has made.
C18_Count(r, method) ==
  Cardinality({i \in 1..Len(run[r].calls) : run[r].calls[i] = method})

\* The calls of every run: the list call at most once and the create call at
\* most once; a create call only after a list call that succeeded and returned
\* no record with the computed title; no call after a failed one.
C18_CallOrder ==
  \A r \in Runs :
    /\ C18_Count(r, "GET") <= 1
    /\ C18_Count(r, "POST") <= 1
    /\ run[r].calls \in {<<>>, <<"GET">>, <<"GET", "POST">>}
    /\ C18_Count(r, "POST") = 1
         => /\ run[r].failed # "GET"
            /\ run[r].page = {}
            /\ run[r].existing = NoIssue
    /\ run[r].failed # ""
         => /\ run[r].pc = "aborted"
            /\ run[r].calls[Len(run[r].calls)] = run[r].failed

\* The lines of the output file with the given name.
C18_Written(r, name) ==
  {i \in 1..Len(run[r].written) : run[r].written[i][1] = name}

\* C18 (as claimed): Publisher call ordering. In every run the list call happens
\* at most once and the create call at most once; a create call happens only
\* after a list call that succeeded and returned no record with the computed
\* title; no call is retried; and a run that returns 0 has written exactly one
\* issue_number and one issue_url output.
C18_CallOrderAndOutputs ==
  /\ C18_CallOrder
  /\ \A r \in Runs :
       Done(r) => /\ Cardinality(C18_Written(r, "issue_number")) = 1
                  /\ Cardinality(C18_Written(r, "issue_url")) = 1

\* C18 (amended): the call ordering as claimed; a run that returns 0 has written
\* exactly one issue_number and one issue_url output when GITHUB_OUTPUT names
\* the output file, and has written nothing when GITHUB_OUTPUT is not defined.
C18_CallOrderAndOutputsIfDefined ==
  /\ C18_CallOrder
  /\ \A r \in Runs :
       Done(r) => IF run[r].output_path = ""
                  THEN run[r].written = <<>>
                  ELSE /\ Cardinality(C18_Written(r, "issue_number")) = 1
                       /\ Cardinality(C18_Written(r, "issue_url")) = 1
                       /\ Len(run[r].written) = 2

\* One run has listed, created and written its two outputs; the other has
\* returned 0 without GITHUB_OUTPUT and has written nothing.
C18_Witness ==
  \E a \in Runs, b \in Runs :
    /\ Done(a) /\ run[a].calls = <<"GET", "POST">>
    /\ run[a].written = IssueOutputs(run[a].created)
    /\ Done(b) /\ run[b].output_path = "" /\ run[b].written = <<>>

(***************************************************************************)
(*                               WALKER                                    *)
(***************************************************************************)

\* File names are sequences of characters; a path is a sequence of names.
N_art == <<"a", "r", "t">>
N_gone == <<"g", "o", "n", "e">>
N_ctemplate == <<"c", "u", "s", "t", "o", "m", "i", "z", "a", "t", "i", "o", "n", "-", "t", "e", "m", "p", "l", "a", "t", "e">>
N_custom == <<"c", "u", "s", "t", "o", "m", "i", "z", "a", "t", "i", "o", "n">>
N_icf == <<"i", "c", "f", ".", "p", "r", "o", "p", "e", "r", "t", "i", "e", "s">>
N_czip == <<"c", ".", "z", "i", "p">>
N_cin == <<"i", "n", ".", "p", "r", "o", "p", "e", "r", "t", "i", "e", "s">>
N_azip == <<"a", ".", "z", "i", "p">>
N_ajar == <<"a", ".", "j", "a", "r">>
N_a == <<"a">>
N_intxt == <<"i", "n", ".", "t", "x", "t">>
N_nzip == <<"n", ".", "z", "i", "p">>
N_deep == <<"d", "e", "e", "p", ".", "p", "r", "o", "p", "e", "r", "t", "i", "e", "s">>
N_jprop == <<"j", ".", "p", "r", "o", "p", "e", "r", "t", "i", "e", "s">>
N_bundle == <<"b", "u", "n", "d", "l", "e">>
N_bprop == <<"b", ".", "c", "f", "g">>
N_badzip == <<"b", "a", "d", ".", "z", "i", "p">>
N_g1 == <<"g", "1", ".", "t", "x", "t">>
N_g2 == <<"g", "2", ".", "t", "x", "t">>
N_loop == <<"l", "o", "o", "p">>
N_pre == <<"p", "r", "e", ".", "t", "x", "t">>
N_x == <<"x", ".", "p", "r", "o", "p", "e", "r", "t", "i", "e", "s">>
N_d == <<"d">>

\* Number of symbolic links the operating system follows in one path before it
\* answers ELOOP (exists(), is_dir() and is_file() are then False).
SymloopMax == 2

\* Number of optional items the initial artifact tree is built from.
MaxItems == 3

\* Number of times main is run over the same artifact directory.
MaxMainRuns == 2

\* ---- pathlib ------------------------------------------------------------

\* The index of the last "." of a name, 0 if there is none.
LastDot(name) ==
  LET dots == {i \in 1..Len(name) : name[i] = "."}
  IN IF dots = {} THEN 0 ELSE CHOOSE i \in dots : \A j \in dots : j <= i

\* PurePath.suffix: the name from its last dot on, unless that dot is the first
\* or the last character of the name.
Suffix(name) ==
  LET i == LastDot(name)
  IN IF 1 < i /\ i < Len(name) THEN SubSeq(name, i, Len(name)) ELSE <<>>

Parent(path) == SubSeq(path, 1, Len(path) - 1)
BaseName(path) == path[Len(path)]

\* target_dir = entry.with_suffix("") if entry.suffix
\*              else entry.parent / f"{entry.name}_extracted"
TargetDir(entry) ==
  LET name == BaseName(entry)
  IN IF Suffix(name) # <<>>
     THEN Append(Parent(entry), SubSeq(name, 1, Len(name) - Len(Suffix(name))))
     ELSE Append(Parent(entry),
                 name \o <<"_", "e", "x", "t", "r", "a", "c", "t", "e", "d">>)

\* ---- the file system ----------------------------------------------------
\* fs.dirs   the directories, by their real path
\* fs.files  the regular files: [path, kind, ar], kind "plain", "zip" (a valid
\*           archive) or "badzip" (is_zipfile accepts it, expansion fails)
\* fs.links  the symbolic links to directories: [path, target]
\* fs.expansions  history: the archives expanded so far, one entry per expansion

NoPath == << <<"?">> >>

LinkAt(path) == {l \in fs.links : l.path = path}
FileAt(path) == {f \in fs.files : f.path = path}

\* The real path a path leads to, NoPath when a component is missing or more
\* than SymloopMax links are on the way.
RECURSIVE Resolve(_, _, _)
Resolve(real, rest, hops) ==
  IF rest = <<>> THEN real
  ELSE LET p == Append(real, Head(rest))
       IN IF LinkAt(p) # {}
          THEN IF hops >= SymloopMax THEN NoPath
               ELSE Resolve((CHOOSE l \in LinkAt(p) : TRUE).target, Tail(rest), hops + 1)
          ELSE IF p \in fs.dirs \/ (FileAt(p) # {} /\ Len(rest) = 1)
          THEN Resolve(p, Tail(rest), hops)
          ELSE NoPath

RealPath(path) == Resolve(<<>>, path, 0)

Exists(path) == RealPath(path) # NoPath
IsDir(path) == RealPath(path) \in fs.dirs
IsFile(path) == FileAt(RealPath(path)) # {}
FileOf(path) == CHOOSE f \in FileAt(RealPath(path)) : TRUE

\* zipfile.is_zipfile(entry): the end-of-central-directory record is found.
IsZipFile(path) == IsFile(path) /\ FileOf(path).kind \in {"zip", "badzip"}

\* The names in a directory.
Entries(path) ==
  LET real == RealPath(path)
      here == fs.dirs \cup {f.path : f \in fs.files} \cup {l.path : l \in fs.links}
  IN {BaseName(q) : q \in {c \in here : Len(c) > 0 /\ Parent(c) = real}}

\* The orders in which the file system may list a directory: by name, ascending
\* or descending, so that every two entries are met in both orders.
ListingOrders == {"ascending", "descending"}

\* current.iterdir(): the names of the directory as listed when the for loop
\* starts, in the order the file system gives them.
IterDir(path, order) ==
  IF order = "ascending" THEN Ascending(Entries(path))
  ELSE Reversed(Ascending(Entries(path)))

\* ---- archives -----------------------------------------------------------
\* The members of each archive in the order they are stored: the relative path,
\* and for a file member its kind and, for a nested archive, that archive.
Member(rel, kind, ar) == [rel |-> rel, kind |-> kind, ar |-> ar]

Archive(ar) ==
  CASE ar = "c" -> << Member(<<N_cin>>, "plain", "") >>
    [] ar = "a" -> << Member(<<N_intxt>>, "plain", ""),
                      Member(<<N_d, N_nzip>>, "zip", "n") >>
    [] ar = "n" -> << Member(<<N_deep>>, "plain", "") >>
    [] ar = "j" -> << Member(<<N_jprop>>, "plain", "") >>
    [] ar = "b" -> << Member(<<N_bprop>>, "plain", "") >>
    [] ar = "g" -> << Member(<<N_g1>>, "plain", ""),
                      Member(<<N_g2>>, "plain", "") >>
    [] OTHER -> << >>

\* The directories a member needs below the target.
MemberDirs(target, rel) ==
  {target \o SubSeq(rel, 1, k) : k \in 0..(Len(rel) - 1)}

\* target_dir.mkdir(parents=True, exist_ok=True) and the extraction of the first
\* n members of the archive into it.
Extracted(f, target, members, n) ==
  LET real == Append(RealPath(Parent(target)), BaseName(target))
  IN [fs EXCEPT
        !.dirs = @ \cup {real}
                   \cup UNION {MemberDirs(real, members[i].rel) : i \in 1..n},
        !.files = @ \cup {[path |-> real \o members[i].rel,
                           kind |-> members[i].kind,
                           ar |-> members[i].ar] : i \in 1..n},
        !.expansions = Append(@, f.path)]

\* ---- the artifact trees the walker is run on ----------------------------
PlainFile(path) == [path |-> path, kind |-> "plain", ar |-> ""]
ZipFile(path, kind, ar) == [path |-> path, kind |-> kind, ar |-> ar]

\* What an artifact download may hold below the artifact directory.
Item(i) ==
  CASE i = "custom" ->
         [dirs |-> {<<N_art, N_custom>>},
          files |-> {PlainFile(<<N_art, N_custom, N_icf>>)}, links |-> {}]
    [] i = "czip" ->
         [dirs |-> {<<N_art, N_custom>>},
          files |-> {ZipFile(<<N_art, N_custom, N_czip>>, "zip", "c")}, links |-> {}]
    [] i = "azip" ->
         [dirs |-> {}, files |-> {ZipFile(<<N_art, N_azip>>, "zip", "a")}, links |-> {}]
    [] i = "ajar" ->
         [dirs |-> {}, files |-> {ZipFile(<<N_art, N_ajar>>, "zip", "j")}, links |-> {}]
    [] i = "bundle" ->
         [dirs |-> {}, files |-> {ZipFile(<<N_art, N_bundle>>, "zip", "b")}, links |-> {}]
    [] i = "badzip" ->
         [dirs |-> {}, files |-> {ZipFile(<<N_art, N_badzip>>, "badzip", "g")}, links |-> {}]
    [] i = "loop" ->
         [dirs |-> {}, files |-> {},
          links |-> {[path |-> <<N_art, N_loop>>, target |-> <<N_art>>]}]
    [] i = "adir" ->
         [dirs |-> {<<N_art, N_a>>},
          files |-> {PlainFile(<<N_art, N_a, N_pre>>)}, links |-> {}]
    [] i = "x" ->
         [dirs |-> {}, files |-> {PlainFile(<<N_art, N_x>>)}, links |-> {}]

Items == {"custom", "czip", "azip", "ajar", "bundle", "badzip", "loop", "adir", "x"}

Tree(items) ==
  [dirs |-> {<<>>, <<N_art>>} \cup UNION {Item(i).dirs : i \in items},
   files |-> UNION {Item(i).files : i \in items},
   links |-> UNION {Item(i).links : i \in items},
   expansions |-> <<>>]

\* Values of ARTIFACT_DIR: not defined, the download directory, a directory that
\* does not exist.
ArtifactDirs == {<<>>, <<N_art>>, <<N_gone>>}

\* ---- prepare_icf_template.main, lines 88-113, and collect_candidates ------

InitWalk ==
  [pc |-> "idle", mainRun |-> 0, roots |-> <<>>, rootIdx |-> 0,
   queue |-> <<>>, seen_dirs |-> {}, current |-> <<>>, pending |-> <<>>,
   root_candidates |-> <<>>, root_extracted |-> <<>>,
   candidates |-> <<>>, extracted_dirs |-> <<>>,
   visits |-> <<>>, reused |-> {}, returned |-> FALSE, exit |-> -1]

\* main, lines 89-108: the search roots of one run.
SearchRoots(artifact_dir) ==
  IF artifact_dir = <<>> THEN <<>>
  ELSE << Append(artifact_dir, N_ctemplate), Append(artifact_dir, N_custom),
          artifact_dir >>

MainStart ==
  /\ walk.pc \in {"idle", "finished", "aborted"}
  /\ walk.mainRun < MaxMainRuns
  /\ \E artifact_dir \in ArtifactDirs :
       walk' = [InitWalk EXCEPT
                  !.mainRun = walk.mainRun + 1,
                  !.roots = SearchRoots(artifact_dir),
                  !.rootIdx = 1,
                  !.pc = IF artifact_dir = <<>> THEN "finished" ELSE "call"]
  /\ UNCHANGED fs

\* main, lines 110-113: the results of one root are added to the run's, and the
\* next root is walked.
AfterRoot(w) ==
  [w EXCEPT !.candidates = @ \o w.root_candidates,
            !.extracted_dirs = @ \o w.root_extracted,
            !.returned = TRUE,
            !.rootIdx = @ + 1,
            !.pc = IF w.rootIdx = Len(w.roots) THEN "finished" ELSE "call"]

\* collect_candidates, lines 45-53.
CollectStart ==
  /\ walk.pc = "call"
  /\ LET root == walk.roots[walk.rootIdx]
         fresh == [walk EXCEPT !.queue = <<>>, !.seen_dirs = {}, !.current = <<>>,
                               !.pending = <<>>, !.root_candidates = <<>>,
                               !.root_extracted = <<>>, !.visits = <<>>,
                               !.reused = {}, !.returned = FALSE]
     IN IF ~Exists(root)
        THEN walk' = AfterRoot(fresh)
        ELSE walk' = [fresh EXCEPT !.queue = <<root>>, !.pc = "loop"]
  /\ UNCHANGED fs

\* "current in seen_dirs": the paths are compared as they are written.
AlreadySeen(current, seen_dirs) == current \in seen_dirs

\* collect_candidates, lines 55-64: one turn of the while loop up to the listing
\* of the directory.
LoopPop ==
  /\ walk.pc = "loop"
  /\ walk.queue # <<>>
  /\ LET current == Head(walk.queue)
         popped == [walk EXCEPT !.queue = Tail(@), !.current = current]
     IN IF AlreadySeen(current, walk.seen_dirs) \/ ~Exists(current)
        THEN walk' = popped
        ELSE IF IsFile(current)
        THEN walk' = [popped EXCEPT !.seen_dirs = @ \cup {current}]
        ELSE \E order \in ListingOrders :
               walk' = [popped EXCEPT
                          !.seen_dirs = @ \cup {current},
                          !.visits = Append(@, RealPath(current)),
                          !.pending = IterDir(current, order),
                          !.pc = IF Entries(current) = {} THEN "loop"
                                 ELSE "entries"]
  /\ UNCHANGED fs

\* "if not target_dir.exists()"
TargetMissingAlways(target) == TRUE

TargetMissing(target) == ~Exists(target)

\* collect_candidates, lines 64-83: one entry of the directory, in the order the
\* file system lists them.
HandleEntry ==
  /\ walk.pc = "entries"
  /\ LET entry == Append(walk.current, Head(walk.pending))
         rest == Tail(walk.pending)
         next == [walk EXCEPT !.pending = rest,
                              !.pc = IF rest = <<>> THEN "loop" ELSE "entries"]
         target == TargetDir(entry)
         members == Archive(FileOf(entry).ar)
     IN
       IF IsDir(entry)
       THEN /\ walk' = [next EXCEPT !.queue = Append(@, entry)]
            /\ UNCHANGED fs
       ELSE IF ~IsFile(entry)
       THEN /\ walk' = next
            /\ UNCHANGED fs
       ELSE IF ~IsZipFile(entry)
       THEN /\ walk' = [next EXCEPT !.root_candidates = Append(@, entry)]
            /\ UNCHANGED fs
       ELSE IF ~TargetMissing(target)
       THEN /\ walk' = [next EXCEPT !.queue = Append(@, target),
                                    !.root_extracted = Append(@, target),
                                    !.reused = @ \cup {target}]
            /\ UNCHANGED fs
       ELSE IF FileOf(entry).kind = "zip"
       THEN /\ fs' = Extracted(FileOf(entry), target, members, Len(members))
            /\ walk' = [next EXCEPT !.queue = Append(@, target),
                                    !.root_extracted = Append(@, target)]
       ELSE \* ZipFile(entry) or extractall raises: nothing catches it
            /\ \E n \in 0..(Len(members) - 1) :
                 fs' = Extracted(FileOf(entry), target, members, n)
            /\ walk' = [walk EXCEPT !.pc = "aborted", !.exit = 1]

\* collect_candidates, line 85, and main, lines 111-113.
CollectReturn ==
  /\ walk.pc = "loop"
  /\ walk.queue = <<>>
  /\ walk' = AfterRoot(walk)
  /\ UNCHANGED fs

InitWalkSpec ==
  /\ \E items \in SUBSET Items :
       /\ Cardinality(items) <= MaxItems
       /\ fs = Tree(items)
  /\ walk = InitWalk
  /\ nextNumber = 0 /\ tracked = {} /\ run = Idle /\ sel = Idle /\ parse = Idle
  /\ job = Idle /\ prep = Idle

NextWalk ==
  \/ MainStart /\ UNCHANGED <<pubVars, selVars, parseVars, jobVars, prepVars>>
  \/ CollectStart /\ UNCHANGED <<pubVars, selVars, parseVars, jobVars, prepVars>>
  \/ LoopPop /\ UNCHANGED <<pubVars, selVars, parseVars, jobVars, prepVars>>
  \/ HandleEntry /\ UNCHANGED <<pubVars, selVars, parseVars, jobVars, prepVars>>
  \/ CollectReturn /\ UNCHANGED <<pubVars, selVars, parseVars, jobVars, prepVars>>

SpecWalk == InitWalkSpec /\ [][NextWalk]_vars

(***************************************************************************)
(*                       Claims about the Walker                           *)
(***************************************************************************)

\* The plain files that lie directly in the directories the current call of
\* collect_candidates has listed.
PlainFilesListed ==
  {f \in fs.files :
     f.kind = "plain" /\ \E i \in 1..Len(walk.visits) : walk.visits[i] = Parent(f.path)}

CandidateRealPaths(candidates) ==
  {RealPath(candidates[i]) : i \in 1..Len(candidates)}

\* C5: Malformed containers never abort the walk. For every tree that holds a
\* file recognised as a container that cannot be expanded, the Walker skips it,
\* continues, and returns every other reachable plain file.
C5_MalformedContainerSkipped ==
  /\ walk.pc # "aborted"
  /\ walk.returned
     => \A f \in PlainFilesListed :
          f.path \in CandidateRealPaths(walk.root_candidates)

\* C6: Walker termination over graphs with a symbolic link back to a directory
\* on the path: each distinct directory is processed at most once in one call
\* of collect_candidates.
C6_EachDirectoryProcessedOnce ==
  \A i \in 1..Len(walk.visits), j \in 1..Len(walk.visits) :
    walk.visits[i] = walk.visits[j] => i = j

\* C7: Idempotent expansion. Over every sequence of Walker invocations on the
\* same tree (the overlapping roots of one run, a second run), each container
\* file is expanded at most once; an invocation that finds the expansion target
\* already present does not expand again, and has enqueued and, when it
\* returns, traversed that directory.
C7_ExpandedAtMostOnce ==
  /\ \A i \in 1..Len(fs.expansions), j \in 1..Len(fs.expansions) :
       fs.expansions[i] = fs.expansions[j] => i = j
  /\ \A t \in walk.reused :
       /\ \E i \in 1..Len(walk.root_extracted) : walk.root_extracted[i] = t
       /\ walk.returned
          => /\ t \in walk.seen_dirs
             /\ IsDir(t) => \E i \in 1..Len(walk.visits) :
                              walk.visits[i] = RealPath(t)

\* A second run has met an archive that the first run expanded, has not expanded
\* it again and has walked the directory of the first expansion.
C7_Witness ==
  /\ walk.mainRun = 2
  /\ walk.returned
  /\ \E t \in walk.reused :
       /\ IsDir(t)
       /\ t \in walk.seen_dirs
       /\ \E i \in 1..Len(fs.expansions) : TargetDir(fs.expansions[i]) = RealPath(t)

\* path lies in the directory root or below it.
C17_Under(root, path) ==
  /\ Len(RealPath(root)) < Len(path)
  /\ SubSeq(path, 1, Len(RealPath(root))) = RealPath(root)

\* The plain files a call on root has to return: the plain files below the
\* root, those that expansions have put there included, and the plain members
\* of every valid container below the root, at their place below the
\* container's expansion target.
C17_Reachable(root) ==
  {f.path : f \in {g \in fs.files : g.kind = "plain" /\ C17_Under(root, g.path)}}
  \cup UNION {
         {TargetDir(c.path) \o Archive(c.ar)[i].rel :
            i \in {j \in 1..Len(Archive(c.ar)) : Archive(c.ar)[j].kind = "plain"}}
         : c \in {g \in fs.files : g.kind = "zip" /\ C17_Under(root, g.path)}}

\* The directories below the root that an archive expansion has created.
C17_Expanded(root) ==
  {TargetDir(fs.expansions[i]) :
     i \in {j \in 1..Len(fs.expansions) : C17_Under(root, fs.expansions[j])}}

\* C17: Walker completeness. When collect_candidates returns, its candidate
\* output, taken as a set, is exactly the set of non-container plain files
\* reachable from the root through sub-directories and through the contents of
\* every valid container found (nested containers included, and also when two
\* containers in one directory map to the same expansion target name); no
\* container file is a candidate, and the second output holds exactly the
\* directories created by archive expansion.
C17_WalkerComplete ==
  (walk.returned /\ Exists(walk.roots[walk.rootIdx - 1]))
    => LET root == walk.roots[walk.rootIdx - 1]
       IN /\ CandidateRealPaths(walk.root_candidates) = C17_Reachable(root)
          /\ \A i \in 1..Len(walk.root_candidates) :
               ~IsZipFile(walk.root_candidates[i])
          /\ CandidateRealPaths(walk.root_extracted) = C17_Expanded(root)

\* Every member of the container is in the file system below the container's
\* expansion target.
C21_Complete(container) ==
  \A i \in 1..Len(Archive(container.ar)) :
    \E g \in fs.files :
      g.path = TargetDir(container.path) \o Archive(container.ar)[i].rel

\* The containers whose expansion target is the directory.
C21_ContainersOf(target) ==
  {c \in fs.files : c.kind # "plain" /\ TargetDir(c.path) = RealPath(target)}

\* C21: expansion-target integrity. In every state reachable by any sequence of
\* Walker invocations (an invocation interrupted by an expansion failure
\* included), an expansion target directory exists only if the contents of its
\* container were completely expanded into it: every target an expansion has
\* created holds all members of the container, and a later invocation that
\* reuses an existing target does not traverse a partial or empty expansion.
C21_TargetsCompletelyExpanded ==
  /\ \A i \in 1..Len(fs.expansions) :
       \A c \in fs.files :
         (c.path = fs.expansions[i] /\ TargetDir(c.path) \in fs.dirs)
           => C21_Complete(c)
  /\ \A t \in walk.reused :
       \A c \in C21_ContainersOf(t) : C21_Complete(c)

(***************************************************************************)
(*                              SELECTOR                                   *)
(***************************************************************************)

N_d1 == <<"d", "1">>
N_d2 == <<"d", "2">>
N_aprop == <<"a", ".", "p", "r", "o", "p", "e", "r", "t", "i", "e", "s">>
N_override == <<"o", "v", "e", "r", "r", "i", "d", "e", ".", "t", "x", "t">>
N_upper == <<"k", ".", "T", "X", "T">>
N_conf == <<"c", ".", "c", "o", "n", "f">>
N_readme == <<"r", "e", "a", "d", "m", "e", ".", "m", "d">>
N_bin == <<"b", ".", "p", "r", "o", "p", "e", "r", "t", "i", "e", "s">>
N_long == <<"z", "z", ".", "p", "r", "o", "p", "e", "r", "t", "i", "e", "s">>

\* Number of files the walker hands to the selector.
MaxCands == 3

\* str.lower() on the characters of the model.
LowerChar(c) ==
  CASE c = "P" -> "p" [] c = "T" -> "t" [] c = "X" -> "x" [] OTHER -> c

Lower(str) == [i \in 1..Len(str) |-> LowerChar(str[i])]

S_properties == <<".", "p", "r", "o", "p", "e", "r", "t", "i", "e", "s">>
S_txt == <<".", "t", "x", "t">>
S_cfg == <<".", "c", "f", "g">>
S_conf == <<".", "c", "o", "n", "f">>
S_ini == <<".", "i", "n", "i">>
S_env == <<".", "e", "n", "v">>

\* allowed_suffixes = {".properties", ".cfg", ".conf", ".ini", ".env", ".txt"}
AllowedSuffixes == {S_properties, S_cfg, S_conf, S_ini, S_env, S_txt}

\* prefer_key: (priority, len(path.name), path.name)
PreferKeyLengthFirst(path) ==
  LET suffix == Lower(Suffix(BaseName(path)))
      priority == IF suffix = S_properties THEN 0
                  ELSE IF suffix \in {S_txt, S_cfg} THEN 1
                  ELSE 2
  IN <<Len(BaseName(path)), priority, BaseName(path)>>

PreferKey(path) ==
  LET suffix == Lower(Suffix(BaseName(path)))
      priority == IF suffix = S_properties THEN 0
                  ELSE IF suffix \in {S_txt, S_cfg} THEN 1
                  ELSE 2
  IN <<priority, Len(BaseName(path)), BaseName(path)>>

\* The order of the key tuples (int, int, str).
KeyLess(k1, k2) ==
  \/ k1[1] < k2[1]
  \/ k1[1] = k2[1] /\ k1[2] < k2[2]
  \/ k1[1] = k2[1] /\ k1[2] = k2[2] /\ StrLess(k1[3], k2[3])

\* sorted(candidates, key=prefer_key): a stable sort, here by insertion.
RECURSIVE InsertByKey(_, _)
InsertByKey(path, sorted) ==
  IF sorted = <<>> THEN <<path>>
  ELSE IF KeyLess(PreferKey(path), PreferKey(Head(sorted)))
  THEN <<path>> \o sorted
  ELSE <<Head(sorted)>> \o InsertByKey(path, Tail(sorted))

RECURSIVE SortedByKey(_)
SortedByKey(candidates) ==
  IF candidates = <<>> THEN <<>>
  ELSE InsertByKey(candidates[Len(candidates)],
                   SortedByKey(SubSeq(candidates, 1, Len(candidates) - 1)))

\* [path for path in candidates if ...]
RECURSIVE Filter(_, _)
Filter(seq, keep) ==
  IF seq = <<>> THEN <<>>
  ELSE IF Head(seq) \in keep THEN <<Head(seq)>> \o Filter(Tail(seq), keep)
  ELSE Filter(Tail(seq), keep)

\* The files of the artifact tree the selector may be given: the path and
\* whether the bytes decode as UTF-8 (is_text_file).
SelFile(path, text) == [path |-> path, text |-> text]

SelUniverse ==
  { SelFile(<<N_art, N_aprop>>, TRUE),
    SelFile(<<N_art, N_override>>, TRUE),
    SelFile(<<N_art, N_d1, N_icf>>, TRUE),
    SelFile(<<N_art, N_d2, N_icf>>, TRUE),
    SelFile(<<N_art, N_upper>>, TRUE),
    SelFile(<<N_art, N_conf>>, TRUE),
    SelFile(<<N_art, N_readme>>, TRUE),
    SelFile(<<N_art, N_bin>>, FALSE),
    SelFile(<<N_art, N_long>>, TRUE) }

NoChoice == <<>>

\* Every order of a set of paths.
RECURSIVE Orders(_)
Orders(paths) ==
  IF paths = {} THEN {<<>>}
  ELSE UNION {{<<q>> \o o : o \in Orders(paths \ {q})} : q \in paths}

SelRuns == {1, 2}

InitSelRun == [pc |-> "start", candidates |-> <<>>, chosen |-> NoChoice,
               status |-> ""]

\* main, lines 115-130, on the candidates as the walk enumerated them.
Select(i) ==
  /\ sel.runs[i].pc = "start"
  /\ \E enumerated \in Orders({f.path : f \in sel.files}) :
       LET textual == {f.path : f \in {g \in sel.files : g.text}}
           candidates == Filter(enumerated, textual)
           allowed == {q \in textual :
                         Lower(Suffix(BaseName(q))) \in AllowedSuffixes}
           prioritized == Filter(candidates, allowed)
       IN sel' = [sel EXCEPT !.runs[i] =
                    IF prioritized # <<>>
                    THEN [pc |-> "done", candidates |-> enumerated,
                          chosen |-> SortedByKey(prioritized)[1],
                          status |-> "ready"]
                    ELSE [pc |-> "done", candidates |-> enumerated,
                          chosen |-> NoChoice, status |-> "missing"]]

InitSel ==
  /\ \E files \in SUBSET SelUniverse :
       /\ Cardinality(files) <= MaxCands
       /\ sel = [files |-> files, runs |-> [i \in SelRuns |-> InitSelRun]]
  /\ nextNumber = 0 /\ tracked = {} /\ run = Idle
  /\ fs = Idle /\ walk = Idle /\ parse = Idle
  /\ job = Idle /\ prep = Idle

NextSel ==
  \E i \in SelRuns : Select(i) /\ UNCHANGED <<pubVars, walkVars, parseVars, jobVars, prepVars>>

SpecSel == InitSel /\ [][NextSel]_vars

(***************************************************************************)
(*                      Claims about the Selector                          *)
(***************************************************************************)

\* C8: Selector determinism. For every set of candidate files the chosen file
\* is the same for every order in which the file system enumerates them, also
\* when two candidates in different directories have the same file name.
C8_SameChoiceForEveryOrder ==
  (sel.runs[1].pc = "done" /\ sel.runs[2].pc = "done")
  => sel.runs[1].chosen = sel.runs[2].chosen

\* The candidates that pass both filters of the claim: text, and a lower-cased
\* extension of the allow-list.
C9_Passing ==
  {f.path : f \in {g \in sel.files :
      g.text /\ Lower(Suffix(BaseName(g.path))) \in
                  {S_properties, S_cfg, S_conf, S_ini, S_env, S_txt}}}

\* The priority class of the claim: .properties before .txt and .cfg, before
\* the rest of the allow-list.
C9_Class(path) ==
  LET x == Lower(Suffix(BaseName(path)))
  IN CASE x = S_properties -> 0
       [] x = S_txt \/ x = S_cfg -> 1
       [] OTHER -> 2

\* a is strictly better than b under (class, file-name length, file name).
C9_Better(a, b) ==
  LET na == BaseName(a)
      nb == BaseName(b)
  IN \/ C9_Class(a) < C9_Class(b)
     \/ C9_Class(a) = C9_Class(b) /\ Len(na) < Len(nb)
     \/ C9_Class(a) = C9_Class(b) /\ Len(na) = Len(nb) /\ StrLess(na, nb)

\* C9: Selector result. The chosen file is a text file with an allow-listed
\* extension (case-insensitive) and no such candidate is better under (priority
\* class, file-name length, file name); a lower class wins whatever the name
\* lengths; when no candidate passes both filters nothing is chosen.
C9_ChosenIsMinimal ==
  \A i \in SelRuns :
    sel.runs[i].pc = "done"
    => IF C9_Passing = {}
       THEN sel.runs[i].chosen = NoChoice /\ sel.runs[i].status = "missing"
       ELSE /\ sel.runs[i].chosen \in C9_Passing
            /\ \A q \in C9_Passing : ~C9_Better(q, sel.runs[i].chosen)
            /\ \A q \in C9_Passing :
                 C9_Class(sel.runs[i].chosen) <= C9_Class(q)

\* a.properties is chosen although a candidate of a higher class has a name that
\* is no longer, and an upper-case extension passed the filter.
C9_Witness ==
  \E i \in SelRuns :
    /\ sel.runs[i].pc = "done"
    /\ sel.runs[i].chosen = <<N_art, N_aprop>>
    /\ <<N_art, N_upper>> \in C9_Passing
    /\ Len(N_upper) < Len(N_aprop)

(***************************************************************************)
(*                               PARSER                                    *)
(***************************************************************************)

\* Number of lines of a template document.
MaxLines == 3

\* ---- str ----------------------------------------------------------------

RECURSIVE LStripChar(_, _)
LStripChar(str, c) ==
  IF str # <<>> /\ Head(str) = c THEN LStripChar(Tail(str), c) ELSE str

RECURSIVE RStripChar(_, _)
RStripChar(str, c) ==
  IF str # <<>> /\ str[Len(str)] = c
  THEN RStripChar(SubSeq(str, 1, Len(str) - 1), c)
  ELSE str

\* str.strip(): white space is the space character here.
Strip(str) == RStripChar(LStripChar(str, " "), " ")

\* str.startswith(prefix)
StartsWith(str, prefix) ==
  Len(str) >= Len(prefix) /\ SubSeq(str, 1, Len(prefix)) = prefix

\* part in str
Contains(str, part) ==
  \E i \in 1..(Len(str) - Len(part) + 1) : SubSeq(str, i, i + Len(part) - 1) = part

Hashes == <<"#", "#">>
Dashes == <<"-", "-", "-", "-">>

\* The parts before and after the last "=".
SplitLastEq(str) ==
  LET at == CHOOSE i \in 1..Len(str) :
              str[i] = "=" /\ \A j \in (i + 1)..Len(str) : str[j] # "="
  IN <<SubSeq(str, 1, at - 1), SubSeq(str, at + 1, Len(str))>>

\* str.split("=", 1): the parts before and after the first "=".
SplitFirstEq(str) ==
  LET at == CHOOSE i \in 1..Len(str) :
              str[i] = "=" /\ \A j \in 1..(i - 1) : str[j] # "="
  IN <<SubSeq(str, 1, at - 1), SubSeq(str, at + 1, Len(str))>>

\* overrides[key] = value on a dict, kept as the sequence of its items in
\* insertion order: a key that is present keeps its place.
DictSet(dict, key, value) ==
  IF \E i \in 1..Len(dict) : dict[i][1] = key
  THEN [i \in 1..Len(dict) |-> IF dict[i][1] = key THEN <<key, value>> ELSE dict[i]]
  ELSE Append(dict, <<key, value>>)

\* ---- create_icf_issue.build_overrides_json -------------------------------

\* lines 60-64: the number of lines up to and including the first section
\* marker, 0 without one.
StartIdxLast(lines) ==
  LET marks == {i \in 1..Len(lines) :
                  StartsWith(Strip(lines[i]), Hashes) /\ Contains(lines[i], Dashes)}
  IN IF marks = {} THEN 0 ELSE CHOOSE i \in marks : \A j \in marks : j <= i

RECURSIVE StartIdxFrom(_, _)
StartIdxFrom(lines, idx) ==
  IF idx > Len(lines) THEN 0
  ELSE IF StartsWith(Strip(lines[idx]), Hashes) /\ Contains(lines[idx], Dashes)
  THEN idx
  ELSE StartIdxFrom(lines, idx + 1)

StartIdx(lines) == StartIdxFrom(lines, 1)

\* lines 67-80: one turn of the loop over the body.
BuildLine(overrides, raw_line) ==
  LET stripped == Strip(raw_line)
      unhashed == IF StartsWith(stripped, <<"#">>)
                  THEN Strip(LStripChar(stripped, "#"))
                  ELSE stripped
  IN IF stripped = <<>> \/ StartsWith(stripped, Hashes) THEN overrides
     ELSE IF unhashed = <<>> \/ StartsWith(unhashed, <<"#">>) THEN overrides
     ELSE IF ~Contains(unhashed, <<"=">>) THEN overrides
     ELSE LET kv == SplitFirstEq(unhashed)
          IN DictSet(overrides, Strip(kv[1]), Strip(kv[2]))

RECURSIVE BuildLoop(_, _, _)
BuildLoop(overrides, lines, idx) ==
  IF idx > Len(lines) THEN overrides
  ELSE BuildLoop(BuildLine(overrides, lines[idx]), lines, idx + 1)

\* build_overrides_json, lines 56-82: the dict that is serialised.
BuildOverrides(lines) ==
  IF lines = <<>> THEN <<>>
  ELSE BuildLoop(<<>>, lines, StartIdx(lines) + 1)

\* ---- prepare_icf_template.main, lines 155-171 ----------------------------

\* No marker is looked for: the whole document is body.
InlineStartNone(lines, idx) == 0

RECURSIVE InlineStartFrom(_, _)
InlineStartFrom(lines, idx) ==
  IF idx > Len(lines) THEN 0
  ELSE IF StartsWith(Strip(lines[idx]), Hashes) /\ Contains(lines[idx], Dashes)
  THEN idx
  ELSE InlineStartFrom(lines, idx + 1)

\* The inline parser with the lines that start with "#" skipped unparsed.
InlineLineNoComment(overrides, raw_line) ==
  LET stripped == Strip(raw_line)
  IN IF stripped = <<>> \/ StartsWith(stripped, <<"#">>) THEN overrides
     ELSE IF ~Contains(stripped, <<"=">>) THEN overrides
     ELSE LET kv == SplitFirstEq(stripped)
          IN DictSet(overrides, Strip(kv[1]), Strip(kv[2]))

InlineLine(overrides, raw_line) ==
  LET stripped == Strip(raw_line)
      unhashed == IF StartsWith(stripped, <<"#">>)
                  THEN Strip(LStripChar(stripped, "#"))
                  ELSE stripped
  IN IF stripped = <<>> \/ StartsWith(stripped, Hashes) THEN overrides
     ELSE IF \/ unhashed = <<>>
             \/ StartsWith(unhashed, <<"#">>)
             \/ ~Contains(unhashed, <<"=">>)
     THEN overrides
     ELSE LET kv == SplitFirstEq(unhashed)
          IN DictSet(overrides, Strip(kv[1]), Strip(kv[2]))

RECURSIVE InlineLoop(_, _, _)
InlineLoop(overrides, lines, idx) ==
  IF idx > Len(lines) THEN overrides
  ELSE InlineLoop(InlineLine(overrides, lines[idx]), lines, idx + 1)

InlineOverrides(lines) == InlineLoop(<<>>, lines, InlineStartFrom(lines, 1) + 1)

\* ---- json.dumps(obj, indent=2, ensure_ascii=False) -----------------------

\* The characters of a string between its quotes: '"' and '\' are escaped.
RECURSIVE JsonEscape(_)
JsonEscape(str) ==
  IF str = <<>> THEN <<>>
  ELSE (IF Head(str) \in {"\"", "\\"} THEN <<"\\", Head(str)>> ELSE <<Head(str)>>)
       \o JsonEscape(Tail(str))

JsonString(str) == <<"\"">> \o JsonEscape(str) \o <<"\"">>

\* The items from the idx-th on, one to a line, indented by two spaces and
\* separated by ",".
RECURSIVE JsonItems(_, _)
JsonItems(dict, idx) ==
  IF idx > Len(dict) THEN <<>>
  ELSE <<" ", " ">> \o JsonString(dict[idx][1]) \o <<":", " ">>
       \o JsonString(dict[idx][2])
       \o (IF idx < Len(dict) THEN <<",", "\n">> ELSE <<"\n">>)
       \o JsonItems(dict, idx + 1)

\* Every dict written over several lines, the empty one too.
JsonDumpsIndented(dict) == <<"{", "\n">> \o JsonItems(dict, 1) \o <<"}">>

\* An empty dict is written as "{}", without a line break.
JsonDumps(dict) ==
  IF dict = <<>> THEN <<"{", "}">>
  ELSE <<"{", "\n">> \o JsonItems(dict, 1) \o <<"}">>

\* ---- the documents -------------------------------------------------------

L_marker == <<"#", "#", " ", "-", "-", "-", "-">>
L_marker2 == <<" ", " ", "#", "#", " ", "k", "=", "v", " ", "-", "-", "-", "-">>
L_section == <<"#", "#", "x", "=", "1">>
L_kv == <<"k", "=", "v">>
L_spaced == <<" ", "k", " ", "=", " ", "2", " ">>
L_commented == <<"#", " ", "a", "=", "1">>
L_twice == <<"#", " ", "#", "b", "=", "1">>
L_hash == <<"#">>
L_blank == <<>>
L_spaces == <<" ", " ">>
L_two_eq == <<"a", "=", "b", "=", "1">>
L_no_key == <<"=", "v">>
L_no_value == <<"k", "=">>
L_text == <<"t", "e", "x", "t">>
L_dashes == <<"b", "=", "-", "-", "-", "-">>

TemplateLines ==
  {L_marker, L_marker2, L_section, L_kv, L_spaced, L_commented, L_twice, L_hash,
   L_blank, L_spaces, L_two_eq, L_no_key, L_no_value,
   L_text, L_dashes}

Documents == UNION {[1..n -> TemplateLines] : n \in 0..MaxLines}

\* No dict: an item sequence that holds a key twice.
NotParsed == << << <<"?">>, <<"?">> >>, << <<"?">>, <<"?">> >> >>

\* No JSON text.
NotSerialized == <<"?">>

\* create_icf_issue.main, lines 216-218: the template lines are parsed and the
\* dict is serialised (build_overrides_json, line 82).
ParseForIssue ==
  /\ parse.build = NotParsed
  /\ parse' = [parse EXCEPT !.build = BuildOverrides(parse.lines),
                            !.buildJson = JsonDumps(BuildOverrides(parse.lines))]

\* prepare_icf_template.main, lines 155-173.
ParseForTemplate ==
  /\ parse.inline = NotParsed
  /\ parse' = [parse EXCEPT !.inline = InlineOverrides(parse.lines),
                            !.inlineJson = JsonDumps(InlineOverrides(parse.lines))]

InitParse ==
  /\ \E lines \in Documents :
       parse = [lines |-> lines, build |-> NotParsed, inline |-> NotParsed,
                buildJson |-> NotSerialized, inlineJson |-> NotSerialized]
  /\ nextNumber = 0 /\ tracked = {} /\ run = Idle
  /\ fs = Idle /\ walk = Idle /\ sel = Idle
  /\ job = Idle /\ prep = Idle

NextParse ==
  \/ ParseForIssue /\ UNCHANGED <<pubVars, walkVars, selVars, jobVars, prepVars>>
  \/ ParseForTemplate /\ UNCHANGED <<pubVars, walkVars, selVars, jobVars, prepVars>>

SpecParse == InitParse /\ [][NextParse]_vars

(***************************************************************************)
(*                       Claims about the Parser                           *)
(***************************************************************************)

\* The reference computation of C10, written from its words.
\* The body starts after the first line that, trimmed, starts with "##" and
\* contains "----"; offset 0 if there is none.
C10_Offset(lines) ==
  LET marks == {i \in 1..Len(lines) :
                  /\ StartsWith(Strip(lines[i]), <<"#", "#">>)
                  /\ Contains(lines[i], <<"-", "-", "-", "-">>)}
  IN IF marks = {} THEN 0 ELSE CHOOSE i \in marks : \A j \in marks : i <= j

\* A line without its leading run of "#", trimmed again.
C10_Unhashed(line) == Strip(LStripChar(Strip(line), "#"))

\* The body lines that carry a pair. skipPrefixed: a line that still starts
\* with "#" after the run was stripped and the rest trimmed is skipped too.
C10_DataLines(lines, skipPrefixed) ==
  {i \in (C10_Offset(lines) + 1)..Len(lines) :
     /\ Strip(lines[i]) # <<>>
     /\ ~StartsWith(Strip(lines[i]), <<"#", "#">>)
     /\ C10_Unhashed(lines[i]) # <<>>
     /\ Contains(C10_Unhashed(lines[i]), <<"=">>)
     /\ skipPrefixed => ~StartsWith(C10_Unhashed(lines[i]), <<"#">>)}

C10_Key(line) ==
  LET u == C10_Unhashed(line)
      at == CHOOSE i \in 1..Len(u) : u[i] = "=" /\ \A j \in 1..(i - 1) : u[j] # "="
  IN Strip(SubSeq(u, 1, at - 1))

C10_Value(line) ==
  LET u == C10_Unhashed(line)
      at == CHOOSE i \in 1..Len(u) : u[i] = "=" /\ \A j \in 1..(i - 1) : u[j] # "="
  IN Strip(SubSeq(u, at + 1, Len(u)))

\* map is the reference map of the lines: its keys are the keys of the data
\* lines, each once, in the order of their first occurrence, each with the
\* value of its last occurrence.
C10_IsReference(map, lines, skipPrefixed) ==
  LET data == C10_DataLines(lines, skipPrefixed)
      first == {i \in data : \A j \in data : C10_Key(lines[j]) = C10_Key(lines[i]) => i <= j}
  IN /\ Len(map) = Cardinality(first)
     /\ \A n \in 1..Len(map) :
          \E i \in first :
            /\ Cardinality({j \in first : j < i}) = n - 1
            /\ map[n][1] = C10_Key(lines[i])
            /\ \E l \in data :
                 /\ C10_Key(lines[l]) = map[n][1]
                 /\ \A j \in data : C10_Key(lines[j]) = map[n][1] => j <= l
                 /\ map[n][2] = C10_Value(lines[l])

\* C10 (as claimed): Parser result. For every sequence of lines the OverrideMap
\* equals the reference: body after the first marker line; blank lines and lines
\* starting with "##" skipped; the leading run of "#" stripped and the rest
\* trimmed; lines then empty or without "=" skipped; split on the first "=" into
\* trimmed key and value; the last occurrence of a key wins.
C10_ParserEqualsReference ==
  /\ parse.build # NotParsed => C10_IsReference(parse.build, parse.lines, FALSE)
  /\ parse.inline # NotParsed => C10_IsReference(parse.inline, parse.lines, FALSE)

\* C10 (amended): as above, and a line that still starts with "#" after the run
\* of "#" was stripped and the rest trimmed (such as "# #b=1") is skipped as
\* well.
C10_ParserEqualsAmendedReference ==
  /\ parse.build # NotParsed => C10_IsReference(parse.build, parse.lines, TRUE)
  /\ parse.inline # NotParsed => C10_IsReference(parse.inline, parse.lines, TRUE)

\* A key given twice with a twice-prefixed line between, both parsers done.
C10_Witness ==
  /\ parse.lines = <<L_kv, L_twice, L_spaced>>
  /\ parse.build = << <<<<"k">>, <<"2">>>> >>
  /\ parse.inline = parse.build

\* The maps that were built so far.
ParsedMaps == {parse.build, parse.inline} \ {NotParsed}

\* C11 (as claimed): for every input document, no key and no value stored in
\* the OverrideMap contains the character "=".
C11_NoEqualsInKeysAndValues ==
  \A map \in ParsedMaps :
    \A n \in 1..Len(map) :
      ~Contains(map[n][1], <<"=">>) /\ ~Contains(map[n][2], <<"=">>)

\* The lines with "=" in two places or more.
C11_TwoEquals(line) ==
  \E i, j \in 1..Len(line) : i < j /\ line[i] = "=" /\ line[j] = "="

\* C11 (amended): no key stored in the OverrideMap contains "="; a value
\* contains "=" only when a line of the document holds "=" twice or more, as the
\* line is split on its first "=" only.
C11_NoEqualsInKeys ==
  \A map \in ParsedMaps :
    \A n \in 1..Len(map) :
      /\ ~Contains(map[n][1], <<"=">>)
      /\ Contains(map[n][2], <<"=">>) =>
           \E i \in 1..Len(parse.lines) : C11_TwoEquals(parse.lines[i])

\* "a=b=1" was parsed by both parsers: key "a", value "b=1".
C11_Witness ==
  /\ \E i \in 1..Len(parse.lines) : parse.lines[i] = L_two_eq
  /\ parse.build # NotParsed /\ parse.inline # NotParsed
  /\ \E n \in 1..Len(parse.build) :
       parse.build[n] = << <<"a">>, <<"b", "=", "1">> >>
  /\ \E n \in 1..Len(parse.inline) :
       parse.inline[n] = << <<"a">>, <<"b", "=", "1">> >>

\* The number of lines up to and including the last section-marker line, 0
\* without one.
C12_LastOffset(lines) ==
  LET marks == {i \in 1..Len(lines) :
                  /\ StartsWith(Strip(lines[i]), <<"#", "#">>)
                  /\ Contains(lines[i], <<"-", "-", "-", "-">>)}
  IN IF marks = {} THEN 0 ELSE CHOOSE i \in marks : \A j \in marks : j <= i

\* Every pair of the maps built so far is the pair of a line after the offset.
C12_PairsFromLinesAfter(offset) ==
  \A map \in ParsedMaps :
    \A n \in 1..Len(map) :
      \E i \in (offset + 1)..Len(parse.lines) :
        /\ Contains(C10_Unhashed(parse.lines[i]), <<"=">>)
        /\ map[n][1] = C10_Key(parse.lines[i])
        /\ map[n][2] = C10_Value(parse.lines[i])

\* C12 (as claimed): the body offset is the index of the first line after the
\* last section-marker line of the document, and no line before that offset
\* contributes a key/value pair to the OverrideMap.
C12_BodyAfterLastMarker ==
  /\ parse.build # NotParsed => StartIdx(parse.lines) = C12_LastOffset(parse.lines)
  /\ parse.inline # NotParsed =>
       InlineStartFrom(parse.lines, 1) = C12_LastOffset(parse.lines)
  /\ C12_PairsFromLinesAfter(C12_LastOffset(parse.lines))

\* C12 (amended): the body offset is the index of the first line after the
\* first section-marker line of the document (0 without one), and no line
\* before that offset contributes a key/value pair to the OverrideMap; a later
\* section-marker line is skipped as a "##" line and the lines between the
\* first and the last marker are data.
C12_BodyAfterFirstMarker ==
  /\ parse.build # NotParsed => StartIdx(parse.lines) = C10_Offset(parse.lines)
  /\ parse.inline # NotParsed =>
       InlineStartFrom(parse.lines, 1) = C10_Offset(parse.lines)
  /\ C12_PairsFromLinesAfter(C10_Offset(parse.lines))

\* Two marker lines with "k=v" between them, parsed by both parsers: the pair
\* is stored.
C12_Witness ==
  /\ parse.lines = <<L_marker, L_kv, L_marker>>
  /\ parse.build = << <<<<"k">>, <<"v">>>> >>
  /\ parse.inline = << <<<<"k">>, <<"v">>>> >>

\* C19: the two parser implementations agree. For every sequence of lines the
\* override map built inline in prepare_icf_template.main and the one built by
\* create_icf_issue.build_overrides_json are equal (same keys, same values, same
\* insertion order), and so are the serialised base documents.
C19_ParsersAgree ==
  (parse.build # NotParsed /\ parse.inline # NotParsed)
    => /\ Len(parse.build) = Len(parse.inline)
       /\ \A n \in 1..Len(parse.build) :
            /\ parse.build[n][1] = parse.inline[n][1]
            /\ parse.build[n][2] = parse.inline[n][2]
       /\ parse.buildJson = parse.inlineJson

\* Both parsers have parsed a document with a commented pair, a value holding
\* "=" and an empty value, and have stored three pairs in this order.
C19_Witness ==
  /\ parse.lines = <<L_commented, L_two_eq, L_no_value>>
  /\ parse.build = << << <<"a">>, <<"b", "=", "1">> >>, << <<"k">>, <<>> >> >>
  /\ parse.inline = parse.build
  /\ parse.buildJson # NotSerialized
  /\ parse.inlineJson = parse.buildJson

(***************************************************************************)
(*            The Parser and the Walker on degenerate inputs                *)
(***************************************************************************)

\* The documents of no line and of one line.
ShortDocuments == {<<>>} \cup {<<line>> : line \in TemplateLines}

\* The artifact downloads without archives.
PlainItems == {"custom", "x"}

InitShort ==
  /\ \E lines \in ShortDocuments :
       parse = [lines |-> lines, build |-> NotParsed, inline |-> NotParsed,
                buildJson |-> NotSerialized, inlineJson |-> NotSerialized]
  /\ \E items \in SUBSET PlainItems : fs = Tree(items)
  /\ walk = InitWalk
  /\ nextNumber = 0 /\ tracked = {} /\ run = Idle /\ sel = Idle
  /\ job = Idle /\ prep = Idle

NextShort ==
  \/ ParseForIssue /\ UNCHANGED <<pubVars, walkVars, selVars, jobVars, prepVars>>
  \/ ParseForTemplate /\ UNCHANGED <<pubVars, walkVars, selVars, jobVars, prepVars>>
  \/ MainStart /\ UNCHANGED <<pubVars, selVars, parseVars, jobVars, prepVars>>
  \/ CollectStart /\ UNCHANGED <<pubVars, selVars, parseVars, jobVars, prepVars>>
  \/ LoopPop /\ UNCHANGED <<pubVars, selVars, parseVars, jobVars, prepVars>>
  \/ HandleEntry /\ UNCHANGED <<pubVars, selVars, parseVars, jobVars, prepVars>>
  \/ CollectReturn /\ UNCHANGED <<pubVars, selVars, parseVars, jobVars, prepVars>>

SpecShort == InitShort /\ [][NextShort]_vars

\* The root of the call of collect_candidates that returned last.
C16_LastRoot == walk.roots[walk.rootIdx - 1]

\* C16: graceful degradation. The Parser applied to an empty document (no
\* lines) returns an empty OverrideMap whose serialised form is "{}"; a call of
\* collect_candidates on a root that does not exist returns no candidate and no
\* expansion directory and does not fail, and a run whose artifact directory
\* does not exist ends with no candidate.
C16_GracefulDegradation ==
  /\ (parse.lines = <<>> /\ parse.build # NotParsed)
       => parse.build = <<>> /\ parse.buildJson = <<"{", "}">>
  /\ (parse.lines = <<>> /\ parse.inline # NotParsed)
       => parse.inline = <<>> /\ parse.inlineJson = <<"{", "}">>
  /\ (walk.returned /\ ~Exists(C16_LastRoot))
       => /\ walk.root_candidates = <<>>
          /\ walk.root_extracted = <<>>
          /\ walk.pc \in {"call", "finished"}
          /\ walk.exit # 1
  /\ (walk.pc = "finished" /\ walk.roots # <<>> /\ ~Exists(walk.roots[3]))
       => walk.candidates = <<>> /\ walk.extracted_dirs = <<>>

\* The empty document was parsed by both parsers, and a run on an artifact
\* directory that does not exist has walked its three roots.
C16_Witness ==
  /\ parse.lines = <<>>
  /\ parse.buildJson = <<"{", "}">>
  /\ parse.inlineJson = <<"{", "}">>
  /\ walk.pc = "finished"
  /\ walk.returned
  /\ walk.roots = SearchRoots(<<N_gone>>)
  /\ walk.candidates = <<>>

(***************************************************************************)
(*                 create_icf_issue.main, line by line                     *)
(***************************************************************************)

\* ---- base64.b64decode(text).decode("utf-8") ----------------------------

B64Chars ==
  <<"A", "B", "C", "D", "E", "F", "G", "H", "I", "J", "K", "L", "M",
    "N", "O", "P", "Q", "R", "S", "T", "U", "V", "W", "X", "Y", "Z",
    "a", "b", "c", "d", "e", "f", "g", "h", "i", "j", "k", "l", "m",
    "n", "o", "p", "q", "r", "s", "t", "u", "v", "w", "x", "y", "z",
    "0", "1", "2", "3", "4", "5", "6", "7", "8", "9", "+", "/">>

IsB64(c) == \E i \in 1..Len(B64Chars) : B64Chars[i] = c

\* The six bits of a character of the base64 alphabet.
B64Value(c) == (CHOOSE i \in 1..Len(B64Chars) : B64Chars[i] = c) - 1

\* The bytes of a group of two, three or four characters.
QuadBytes(quad) ==
  LET b1 == quad[1] * 4 + quad[2] \div 16
      b2 == (quad[2] % 16) * 16 + quad[3] \div 4
      b3 == (quad[3] % 4) * 64 + quad[4]
  IN IF Len(quad) = 2 THEN <<b1>>
     ELSE IF Len(quad) = 3 THEN <<b1, b2>>
     ELSE <<b1, b2, b3>>

\* binascii.a2b_base64 without validation: a character outside the alphabet is
\* dropped, the padding that completes a group ends the data, and a group left
\* open at the end is an error (binascii.Error, a ValueError).
RECURSIVE B64Scan(_, _, _, _, _)
B64Scan(text, idx, quad, pads, bytes) ==
  IF idx > Len(text) THEN [ok |-> quad = <<>>, bytes |-> bytes]
  ELSE IF text[idx] = "="
  THEN IF Len(quad) >= 2 /\ Len(quad) + pads + 1 >= 4
       THEN [ok |-> TRUE, bytes |-> bytes \o QuadBytes(quad)]
       ELSE B64Scan(text, idx + 1, quad, IF Len(quad) >= 2 THEN pads + 1 ELSE pads,
                    bytes)
  ELSE IF ~IsB64(text[idx])
  THEN B64Scan(text, idx + 1, quad, pads, bytes)
  ELSE LET group == Append(quad, B64Value(text[idx]))
       IN IF Len(group) = 4
          THEN B64Scan(text, idx + 1, <<>>, 0, bytes \o QuadBytes(group))
          ELSE B64Scan(text, idx + 1, group, 0, bytes)

\* The characters of the bytes 32 to 95 and 97 to 126. Byte 96, the grave
\* accent, has no string in this notation; no payload of the model holds it.
AsciiLow ==
  <<" ", "!", "\"", "#", "$", "%", "&", "'", "(", ")", "*", "+", ",", "-", ".", "/",
    "0", "1", "2", "3", "4", "5", "6", "7", "8", "9", ":", ";", "<", "=", ">", "?",
    "@", "A", "B", "C", "D", "E", "F", "G", "H", "I", "J", "K", "L", "M", "N", "O",
    "P", "Q", "R", "S", "T", "U", "V", "W", "X", "Y", "Z", "[", "\\", "]", "^", "_">>

AsciiHigh ==
  <<"a", "b", "c", "d", "e", "f", "g", "h", "i", "j", "k", "l", "m", "n", "o",
    "p", "q", "r", "s", "t", "u", "v", "w", "x", "y", "z", "{", "|", "}", "~">>

Chr(byte) ==
  IF byte = 10 THEN "\n"
  ELSE IF byte < 96 THEN AsciiLow[byte - 31]
  ELSE AsciiHigh[byte - 96]

\* bytes.decode("utf-8") for the payloads of the model: printable ASCII and line
\* feeds decode to themselves; a byte from 128 on (0xff in the payloads) starts
\* no valid sequence and raises UnicodeDecodeError.
Utf8Decodes(bytes) ==
  \A i \in 1..Len(bytes) : bytes[i] \in {10} \cup (32..95) \cup (97..126)

Utf8Decode(bytes) == [i \in 1..Len(bytes) |-> Chr(bytes[i])]

\* base64.b64decode(text).decode("utf-8"): the text, or ok = FALSE for the
\* ValueError and the UnicodeDecodeError the callers catch.
B64Decode(text) ==
  LET scan == B64Scan(text, 1, <<>>, 0, <<>>)
  IN IF scan.ok /\ Utf8Decodes(scan.bytes)
     THEN [ok |-> TRUE, text |-> Utf8Decode(scan.bytes)]
     ELSE [ok |-> FALSE, text |-> <<>>]

\* str.splitlines() on line feeds: no line for the empty text and none after a
\* closing line feed.
RECURSIVE SplitLinesFrom(_, _, _)
SplitLinesFrom(text, idx, line) ==
  IF idx > Len(text) THEN (IF line = <<>> THEN <<>> ELSE <<line>>)
  ELSE IF text[idx] = "\n"
  THEN IF idx = Len(text) THEN <<line>>
       ELSE <<line>> \o SplitLinesFrom(text, idx + 1, <<>>)
  ELSE SplitLinesFrom(text, idx + 1, Append(line, text[idx]))

SplitLines(text) == SplitLinesFrom(text, 1, <<>>)

\* ---- the environment of one run ----------------------------------------

\* Values of the *_B64 variables.
P_none == <<>>
P_blank == <<" ", " ">>
P_object == <<"e", "3", "0", "=">>
P_pair == <<"e", "y", "J", "r", "I", "j", "o", "i", "c", "S", "J", "9">>
P_unpadded == <<"e", "3", "0">>
P_not_utf8 == <<"/", "w", "=", "=">>
P_foreign == <<"e", "3", "#", "0", "=">>
P_hashes == <<"#", "#", "#", "#">>
P_template == <<"a", "z", "1", "2", "C", "i", "M", "g", "Y", "T", "0", "x">>

\* Values of TARGET_MAP, as the text of the variable.
TargetMaps ==
  {"{}", "", "{bad", "{\"p\": [\"qa\", \"prod\"]}", "{\"p\": [\"prod\"]}",
   "{\"o\": [\"qa\"]}", "[]", "[\"qa\"]", "\"qa\"", "1", "null",
   "{\"p\": \"qa\"}", "{\"p\": null}", "{\"p\": 5}", "{\"p\": [1]}"}

\* Values of PLAN.
Plans == {"p"}

\* How a file of the workspace answers read_text.
FileOutcomes == {"ok", "missing", "oserror"}

\* ---- json.loads ----------------------------------------------------------

JsonInvalid == [kind |-> "invalid"]
JsonNull == [kind |-> "null"]
JsonNumber(n) == [kind |-> "number", value |-> n]
JsonText(str) == [kind |-> "string", value |-> str]
JsonArray(items) == [kind |-> "array", items |-> items]
JsonObject(items) == [kind |-> "object", items |-> items]

\* json.loads on the values of TARGET_MAP; "invalid" stands for the
\* JSONDecodeError.
JsonLoads(raw) ==
  CASE raw = "{}" -> JsonObject(<<>>)
    [] raw = "" -> JsonInvalid
    [] raw = "{bad" -> JsonInvalid
    [] raw = "{\"p\": [\"qa\", \"prod\"]}" ->
         JsonObject(<< <<"p", JsonArray(<<JsonText("qa"), JsonText("prod")>>)>> >>)
    [] raw = "{\"p\": [\"prod\"]}" ->
         JsonObject(<< <<"p", JsonArray(<<JsonText("prod")>>)>> >>)
    [] raw = "{\"o\": [\"qa\"]}" ->
         JsonObject(<< <<"o", JsonArray(<<JsonText("qa")>>)>> >>)
    [] raw = "[]" -> JsonArray(<<>>)
    [] raw = "[\"qa\"]" -> JsonArray(<<JsonText("qa")>>)
    [] raw = "\"qa\"" -> JsonText("qa")
    [] raw = "1" -> JsonNumber(1)
    [] raw = "null" -> JsonNull
    [] raw = "{\"p\": \"qa\"}" -> JsonObject(<< <<"p", JsonText("qa")>> >>)
    [] raw = "{\"p\": null}" -> JsonObject(<< <<"p", JsonNull>> >>)
    [] raw = "{\"p\": 5}" -> JsonObject(<< <<"p", JsonNumber(5)>> >>)
    [] raw = "{\"p\": [1]}" -> JsonObject(<< <<"p", JsonArray(<<JsonNumber(1)>>)>> >>)

\* The characters of the strings that are iterated.
Chars(str) == IF str = "qa" THEN <<"q", "a">> ELSE <<str>>

\* ---- main, lines 141-162 ------------------------------------------------

\* lines 141-146: only the JSONDecodeError is caught.
LoadTargetMap(raw) ==
  IF JsonLoads(raw).kind = "invalid" THEN JsonObject(<<>>) ELSE JsonLoads(raw)

Raised(name) == [ok |-> FALSE, error |-> name, envs |-> <<>>]
Returned(envs) == [ok |-> TRUE, error |-> "", envs |-> envs]

\* lines 149-162: target_map.get(plan, []), the list of the targets and the
\* names of the secrets. What is no dict has no get; a value that cannot be
\* iterated, or an entry without upper, raises as well.
Targets(target_map, plan) ==
  IF target_map.kind # "object" THEN Raised("AttributeError")
  ELSE LET at == {i \in 1..Len(target_map.items) : target_map.items[i][1] = plan}
           value == IF at = {} THEN JsonArray(<<>>)
                    ELSE target_map.items[CHOOSE i \in at : TRUE][2]
       IN CASE value.kind = "array" ->
                 IF \A i \in 1..Len(value.items) : value.items[i].kind = "string"
                 THEN Returned([i \in 1..Len(value.items) |-> value.items[i].value])
                 ELSE Raised("AttributeError")
            [] value.kind = "string" -> Returned(Chars(value.value))
            [] OTHER -> Raised("TypeError")

\* ---- main, lines 126-136 ------------------------------------------------

\* The start-up checks are passed whatever the environment holds.
ConfigOkAlways(token, repository) == TRUE

\* lines 127-135: the token is there, the repository is there and has a "/".
ConfigOk(token, repository) ==
  token # "" /\ repository # "" /\ HasSlash(repository)

\* ---- main, lines 211-230 ------------------------------------------------

\* A payload that does not decode gives the empty document.
DecodeOverrideNoFallback(custom_b64, fallback) ==
  IF custom_b64 = <<>> THEN fallback ELSE B64Decode(custom_b64).text

\* decode_override, lines 220-227.
DecodeOverride(custom_b64, fallback) ==
  IF custom_b64 = <<>> THEN fallback
  ELSE IF B64Decode(custom_b64).ok THEN B64Decode(custom_b64).text
  ELSE fallback

\* One b64decode(...).decode("utf-8") of the run: the variable, whether it
\* decoded, and the text.
Decoded(name, value) ==
  IF value = <<>> THEN <<>>
  ELSE << [name |-> name, ok |-> B64Decode(value).ok, text |-> B64Decode(value).text] >>

\* ---- the run -------------------------------------------------------------

\* The text of the files of the workspace.
ExportedText == <<"k", " ", "=", " ", "2", "\n">>
ProvisioningText == <<"#", "#", " ", "-", "-", "-", "-", "\n", "k", "=", "v", "\n">>

\* A run of main before its first line. reads, decodes, calls and written
\* record the files read, the payloads decoded, the remote calls made and the
\* lines appended to the output file.
InitJobRun ==
  [pc |-> "start", token |-> "", repository |-> "", target_map_raw |-> "",
   targets |-> <<>>, template_body |-> FALSE, template_lines |-> <<>>,
   source_label |-> "", overrides_b64 |-> <<>>, overrides_qa_b64 |-> <<>>,
   overrides_prod_b64 |-> <<>>, overrides_json |-> NotSerialized,
   overrides_qa_json |-> NotSerialized, overrides_prod_json |-> NotSerialized,
   env_sections |-> <<>>, reads |-> <<>>, decodes |-> <<>>, calls |-> <<>>,
   written |-> <<>>, exit |-> -1, error |-> ""]

\* main, lines 126-139.
JobConfig ==
  /\ job.pc = "start"
  /\ \E token \in Tokens, repository \in Repositories :
       job' = [job EXCEPT !.token = token, !.repository = repository,
                          !.pc = IF ConfigOk(token, repository) THEN "targets"
                                 ELSE "done",
                          !.exit = IF ConfigOk(token, repository) THEN -1 ELSE 1]

\* main, lines 141-162.
JobTargets ==
  /\ job.pc = "targets"
  /\ \E raw \in TargetMaps, plan \in Plans :
       LET targets == Targets(LoadTargetMap(raw), plan)
       IN job' = [job EXCEPT !.target_map_raw = raw,
                             !.targets = targets.envs,
                             !.error = targets.error,
                             !.pc = IF targets.ok THEN "templates" ELSE "aborted",
                             !.exit = IF targets.ok THEN -1 ELSE 1]

\* What read_text gives: the lines, none when the file cannot be read (the
\* callers catch FileNotFoundError and OSError).
ReadLines(outcome, text) == IF outcome = "ok" THEN SplitLines(text) ELSE <<>>

\* main, lines 164-209: the issue template, then the template lines from the
\* encoded content, else from the exported file, else from the provisioning
\* template.
JobTemplates ==
  /\ job.pc = "templates"
  /\ \E body \in FileOutcomes, content_b64 \in {P_none, P_template, P_unpadded, P_hashes},
        override_path \in {"", "exported"}, exported \in FileOutcomes,
        provisioning \in FileOutcomes :
       LET decoded == B64Decode(content_b64)
           from_content == IF content_b64 # <<>> /\ decoded.ok
                           THEN SplitLines(decoded.text) ELSE <<>>
           read_exported == from_content = <<>> /\ override_path # ""
           from_exported == IF read_exported
                            THEN ReadLines(exported, ExportedText) ELSE from_content
           read_provisioning == from_exported = <<>>
           lines == IF read_provisioning
                    THEN ReadLines(provisioning, ProvisioningText)
                    ELSE from_exported
       IN job' = [job EXCEPT
                    !.template_body = (body = "ok"),
                    !.template_lines = lines,
                    !.source_label =
                      IF read_provisioning THEN "provisioning"
                      ELSE IF from_content # <<>> THEN "artifact"
                      ELSE "exported",
                    !.reads = <<"TEMPLATE_PATH">>
                              \o (IF read_exported THEN <<"ICF_TEMPLATE_PATH">> ELSE <<>>)
                              \o (IF read_provisioning
                                  THEN <<"PROVISIONING_TEMPLATE_PATH">> ELSE <<>>),
                    !.decodes = Decoded("ICF_TEMPLATE_CONTENT_B64", content_b64),
                    !.pc = "overrides"]

\* The characters of the document build_overrides_json returns.
BuildOverridesJson(lines) == JsonDumps(BuildOverrides(lines))

\* main, lines 211-283: the base document, the documents of qa and prod, and
\* the sections of the targeted environments in the body.
JobOverrides ==
  /\ job.pc = "overrides"
  /\ \E base_raw \in {P_none, P_blank, P_pair, P_unpadded},
        qa_raw \in {P_none, P_object, P_unpadded, P_not_utf8, P_foreign},
        prod_raw \in {P_none, P_object, P_unpadded, P_not_utf8, P_foreign} :
       LET overrides_b64 == Strip(base_raw)
           overrides_qa_b64 == Strip(qa_raw)
           overrides_prod_b64 == Strip(prod_raw)
           overrides_json ==
             IF overrides_b64 # <<>> /\ B64Decode(overrides_b64).ok
             THEN B64Decode(overrides_b64).text
             ELSE BuildOverridesJson(job.template_lines)
           overrides_qa_json == DecodeOverride(overrides_qa_b64, overrides_json)
           overrides_prod_json == DecodeOverride(overrides_prod_b64, overrides_json)
           targeted_envs ==
             IF job.targets = <<>> THEN {"qa"}
             ELSE {job.targets[i] : i \in 1..Len(job.targets)}
       IN job' = [job EXCEPT
                    !.overrides_b64 = overrides_b64,
                    !.overrides_qa_b64 = overrides_qa_b64,
                    !.overrides_prod_b64 = overrides_prod_b64,
                    !.overrides_json = overrides_json,
                    !.overrides_qa_json = overrides_qa_json,
                    !.overrides_prod_json = overrides_prod_json,
                    !.env_sections =
                      (IF "qa" \in targeted_envs
                       THEN << <<"QA", overrides_qa_json>> >> ELSE <<>>)
                      \o (IF "prod" \in targeted_envs
                          THEN << <<"Prod", overrides_prod_json>> >> ELSE <<>>),
                    !.decodes = @ \o Decoded("ICF_OVERRIDES_JSON_B64", overrides_b64)
                                  \o Decoded("ICF_OVERRIDES_QA_JSON_B64", overrides_qa_b64)
                                  \o Decoded("ICF_OVERRIDES_PROD_JSON_B64",
                                             overrides_prod_b64),
                    !.pc = "list"]

\* main, lines 285-297: the list call and the find step; found tells whether the
\* response holds a record with the title.
JobList ==
  /\ job.pc = "list"
  /\ \E outcome \in Outcomes, found \in BOOLEAN, output_path \in OutputPaths :
       IF outcome # "ok"
       THEN job' = [job EXCEPT !.calls = <<"GET">>, !.pc = "aborted", !.exit = 1,
                               !.error = "RemoteError"]
       ELSE IF found
       THEN job' = [job EXCEPT !.calls = <<"GET">>, !.pc = "done", !.exit = 0,
                               !.written = SetOutput(output_path, IssueOutputs(1))]
       ELSE job' = [job EXCEPT !.calls = <<"GET">>, !.pc = "creating"]

\* main, lines 299-313.
JobCreate ==
  /\ job.pc = "creating"
  /\ \E outcome \in Outcomes, output_path \in OutputPaths :
       IF outcome # "ok"
       THEN job' = [job EXCEPT !.calls = Append(@, "POST"), !.pc = "aborted",
                               !.exit = 1, !.error = "RemoteError"]
       ELSE job' = [job EXCEPT !.calls = Append(@, "POST"), !.pc = "done",
                               !.exit = 0,
                               !.written = SetOutput(output_path, IssueOutputs(1))]

InitJob ==
  /\ job = InitJobRun
  /\ nextNumber = 0 /\ tracked = {} /\ run = Idle
  /\ fs = Idle /\ walk = Idle /\ sel = Idle /\ parse = Idle /\ prep = Idle

NextJob ==
  \/ JobConfig /\ UNCHANGED <<pubVars, walkVars, selVars, parseVars, prepVars>>
  \/ JobTargets /\ UNCHANGED <<pubVars, walkVars, selVars, parseVars, prepVars>>
  \/ JobTemplates /\ UNCHANGED <<pubVars, walkVars, selVars, parseVars, prepVars>>
  \/ JobOverrides /\ UNCHANGED <<pubVars, walkVars, selVars, parseVars, prepVars>>
  \/ JobList /\ UNCHANGED <<pubVars, walkVars, selVars, parseVars, prepVars>>
  \/ JobCreate /\ UNCHANGED <<pubVars, walkVars, selVars, parseVars, prepVars>>

SpecJob == InitJob /\ [][NextJob]_vars

(***************************************************************************)
(*                 Claims about create_icf_issue.main                      *)
(***************************************************************************)

\* C15: configuration failure comes first. When the authentication token is
\* absent, or the repository identifier is absent or has no "/", the run ends
\* with exit status 1 before any template file is read, any payload is decoded
\* or parsed, any remote call is made, or any output is written.
C15_ConfigFailureFirst ==
  (/\ job.pc # "start"
   /\ \/ job.token = ""
      \/ job.repository = ""
      \/ ~HasSlash(job.repository))
    => /\ job.pc = "done"
       /\ job.exit = 1
       /\ job.reads = <<>>
       /\ job.decodes = <<>>
       /\ job.template_lines = <<>>
       /\ job.overrides_json = NotSerialized
       /\ job.overrides_qa_json = NotSerialized
       /\ job.overrides_prod_json = NotSerialized
       /\ job.calls = <<>>
       /\ job.written = <<>>

\* A run with a token and a repository without "/" has ended with status 1.
C15_Witness ==
  /\ job.pc = "done"
  /\ job.exit = 1
  /\ job.token = "tok"
  /\ job.repository = "norepo"
  /\ job.calls = <<>>

\* The values of TARGET_MAP that are a mapping from plan names to lists of
\* environment names.
C14_WellFormed ==
  {"{}", "{\"p\": [\"qa\", \"prod\"]}", "{\"p\": [\"prod\"]}", "{\"o\": [\"qa\"]}"}

\* C14: a malformed plan-to-environment mapping is never fatal. For every value
\* of TARGET_MAP that is not a well-formed mapping from plan name to
\* environment list (invalid JSON, or valid JSON that is not an object), the run
\* treats the mapping as empty, yields an empty target list and goes on to the
\* Publisher step: it does not end before its list call unless the list call is
\* what is next.
C14_MalformedTargetMapNotFatal ==
  (/\ job.pc \notin {"start", "targets"}
   /\ ConfigOk(job.token, job.repository)
   /\ job.target_map_raw \notin C14_WellFormed)
    => /\ job.targets = <<>>
       /\ job.error \notin {"AttributeError", "TypeError"}
       /\ job.pc \in {"aborted", "done"} => job.calls # <<>>

\* The documents of one run after the reconciliation: for the environment whose
\* payload is in the variable name, the document is the decoded text when the
\* payload was supplied and decoded, and the base document otherwise.
C13_Effective(name, supplied, document) ==
  LET at == {i \in 1..Len(job.decodes) : job.decodes[i].name = name}
  IN /\ (supplied # <<>>) <=> (at # {})
     /\ Cardinality(at) <= 1
     /\ \A i \in at :
          document = IF job.decodes[i].ok THEN job.decodes[i].text
                     ELSE job.overrides_json
     /\ at = {} => document = job.overrides_json

\* C13: override reconciliation per environment. For each of qa and prod
\* independently, the effective override document is the decoded payload
\* verbatim when a payload was supplied and decodes, and the base serialisation
\* otherwise; a decode failure of one environment's payload does not abort the
\* run and changes neither the other environment's document nor the base, which
\* is the decoded ICF_OVERRIDES_JSON_B64 or else the serialised map of the
\* template lines.
C13_ReconciledPerEnvironment ==
  job.pc \in {"list", "creating", "done", "aborted"} /\ job.reads # <<>>
    => /\ C13_Effective("ICF_OVERRIDES_QA_JSON_B64", job.overrides_qa_b64,
                        job.overrides_qa_json)
       /\ C13_Effective("ICF_OVERRIDES_PROD_JSON_B64", job.overrides_prod_b64,
                        job.overrides_prod_json)
       /\ LET at == {i \in 1..Len(job.decodes) :
                       job.decodes[i].name = "ICF_OVERRIDES_JSON_B64"}
          IN /\ (job.overrides_b64 # <<>>) <=> (at # {})
             /\ job.overrides_json =
                  IF \E i \in at : job.decodes[i].ok
                  THEN job.decodes[CHOOSE i \in at : TRUE].text
                  ELSE JsonDumps(BuildOverrides(job.template_lines))
       /\ job.pc = "aborted" => job.calls # <<>>
       /\ \A i \in 1..Len(job.env_sections) :
            job.env_sections[i][2] =
              IF job.env_sections[i][1] = "QA" THEN job.overrides_qa_json
              ELSE job.overrides_prod_json

\* The payload of qa does not decode (no padding) and that of prod decodes to
\* "{}": qa has the base document, built from the provisioning template, prod
\* has its own, and the run went on to its list call.
C13_Witness ==
  /\ job.pc = "creating"
  /\ job.overrides_b64 = <<>>
  /\ job.overrides_qa_b64 = P_unpadded
  /\ job.overrides_prod_b64 = P_object
  /\ job.template_lines = SplitLines(ProvisioningText)
  /\ job.overrides_json = <<"{", "\n", " ", " ", "\"", "k", "\"", ":", " ",
                            "\"", "v", "\"", "\n", "}">>
  /\ job.overrides_qa_json = job.overrides_json
  /\ job.overrides_prod_json = <<"{", "}">>
  /\ job.targets = <<"qa", "prod">>

(***************************************************************************)
(*        prepare_icf_template.main from the selection to the outputs      *)
(***************************************************************************)

\* ---- base64.b64encode(text.encode("utf-8")).decode("ascii") --------------

Ord(c) == CHOOSE byte \in {10} \cup (32..95) \cup (97..126) : Chr(byte) = c

Utf8Encode(text) == [i \in 1..Len(text) |-> Ord(text[i])]

RECURSIVE B64EncodeFrom(_, _)
B64EncodeFrom(bytes, idx) ==
  IF idx > Len(bytes) THEN <<>>
  ELSE LET rest == Len(bytes) - idx + 1
           b1 == bytes[idx]
           b2 == IF rest >= 2 THEN bytes[idx + 1] ELSE 0
           b3 == IF rest >= 3 THEN bytes[idx + 2] ELSE 0
       IN << B64Chars[b1 \div 4 + 1],
             B64Chars[(b1 % 4) * 16 + b2 \div 16 + 1],
             IF rest >= 2 THEN B64Chars[(b2 % 16) * 4 + b3 \div 64 + 1] ELSE "=",
             IF rest >= 3 THEN B64Chars[(b3 % 64) + 1] ELSE "=" >>
          \o B64EncodeFrom(bytes, idx + 3)

B64Encode(text) == B64EncodeFrom(Utf8Encode(text), 1)

\* ---- the files ------------------------------------------------------------

\* "\n".join(lines)
RECURSIVE JoinLines(_)
JoinLines(lines) ==
  IF lines = <<>> THEN <<>>
  ELSE IF Len(lines) = 1 THEN lines[1]
  ELSE lines[1] \o <<"\n">> \o JoinLines(Tail(lines))

\* What the files of the artifact may hold.
ArtifactTexts ==
  {<<>>, JoinLines(<<L_kv, L_commented>>), JoinLines(<<L_text>>),
   JoinLines(<<L_marker, L_spaced>>)}

\* What the fallback template may hold.
FallbackTexts == {JoinLines(<<L_kv>>), JoinLines(<<L_hash>>)}

\* The text files the walk may have returned.
PrepUniverse ==
  { SelFile(<<N_art, N_aprop>>, TRUE),
    SelFile(<<N_art, N_override>>, TRUE),
    SelFile(<<N_art, N_readme>>, TRUE) }

N_fallback == <<"f", "b", ".", "p", "r", "o", "p", "e", "r", "t", "i", "e", "s">>

\* Values of FALLBACK_TEMPLATE_PATH: not defined, a path.
FallbackPaths == {<<>>, <<N_fallback>>}

\* content is None
NoContent == <<"None">>

\* How read_text answers.
ReadOutcomes == {"ok", "oserror"}

\* ---- main, lines 115-191 ------------------------------------------------

\* emit_output, lines 35-42: nothing is written for an empty value or without
\* GITHUB_OUTPUT.
EmitOutput(output_path, name, value) ==
  IF value = <<>> \/ output_path = "" THEN <<>> ELSE << <<name, value>> >>

\* source tells which read gave the content: "artifact" for the chosen file,
\* "fallback" for the fallback template, "" for none.
InitPrepRun ==
  [pc |-> "start", files |-> {}, chosen |-> NoChoice, status |-> <<>>,
   content |-> NoContent, source |-> "", source_path |-> <<>>,
   overrides |-> NotParsed, emitted |-> <<>>, exit |-> -1]

\* main, lines 115-130.
PrepSelect ==
  /\ prep.pc = "start"
  /\ \E enumerated \in Orders({f.path : f \in prep.files}) :
       LET allowed == {q \in {f.path : f \in prep.files} :
                         Lower(Suffix(BaseName(q))) \in AllowedSuffixes}
           prioritized == Filter(enumerated, allowed)
       IN prep' = [prep EXCEPT
                     !.chosen = IF prioritized # <<>>
                                THEN SortedByKey(prioritized)[1] ELSE NoChoice,
                     !.status = IF prioritized # <<>>
                                THEN <<"r", "e", "a", "d", "y">>
                                ELSE <<"m", "i", "s", "s", "i", "n", "g">>,
                     !.pc = "read"]

\* main, lines 132-139: the chosen file is read; an OSError is logged.
PrepRead ==
  /\ prep.pc = "read"
  /\ IF prep.chosen = NoChoice
     THEN prep' = [prep EXCEPT !.pc = "fallback"]
     ELSE \E outcome \in ReadOutcomes, text \in ArtifactTexts :
            IF outcome = "ok"
            THEN prep' = [prep EXCEPT !.content = text, !.source = "artifact",
                                      !.source_path = prep.chosen,
                                      !.pc = "fallback"]
            ELSE prep' = [prep EXCEPT !.pc = "fallback"]

\* lines 147-148
FallbackStatus(status) ==
  IF status = <<"m", "i", "s", "s", "i", "n", "g">>
  THEN <<"f", "a", "l", "l", "b", "a", "c", "k">>
  ELSE status

\* main, lines 141-148: the fallback template; an error of its read_text is
\* not caught.
PrepFallback ==
  /\ prep.pc = "fallback"
  /\ \E fallback_template \in FallbackPaths, is_file \in BOOLEAN,
        outcome \in ReadOutcomes, text \in FallbackTexts :
       IF prep.content = NoContent /\ fallback_template # <<>> /\ is_file
       THEN IF outcome = "ok"
            THEN prep' = [prep EXCEPT !.content = text, !.source = "fallback",
                                      !.source_path = fallback_template,
                                      !.status = FallbackStatus(prep.status),
                                      !.pc = "parse"]
            ELSE prep' = [prep EXCEPT !.pc = "aborted", !.exit = 1]
       ELSE prep' = [prep EXCEPT !.pc = "parse"]

\* main, lines 150-191: without content the status alone is emitted; else the
\* content is parsed and the outputs are emitted.
PrepEmit ==
  /\ prep.pc = "parse"
  /\ \E output_path \in OutputPaths :
       IF prep.content = NoContent
       THEN prep' = [prep EXCEPT
                       !.emitted = EmitOutput(output_path, "icf_template_status",
                                              prep.status),
                       !.pc = "done", !.exit = 0]
       ELSE LET overrides == InlineOverrides(SplitLines(prep.content))
                overrides_json == JsonDumps(overrides)
                status == IF overrides = <<>>
                             /\ prep.status = <<"r", "e", "a", "d", "y">>
                          THEN <<"e", "m", "p", "t", "y">>
                          ELSE prep.status
            IN prep' = [prep EXCEPT
                 !.overrides = overrides,
                 !.status = status,
                 !.emitted =
                   EmitOutput(output_path, "icf_template_path",
                              JoinLines(prep.source_path))
                   \o EmitOutput(output_path, "icf_template_source",
                                 JoinLines(prep.source_path))
                   \o EmitOutput(output_path, "icf_template_file",
                                 BaseName(prep.source_path))
                   \o EmitOutput(output_path, "icf_template_content_b64",
                                 B64Encode(prep.content))
                   \o EmitOutput(output_path, "icf_overrides_json_b64",
                                 B64Encode(overrides_json))
                   \o EmitOutput(output_path, "icf_overrides_qa_json_b64",
                                 B64Encode(overrides_json))
                   \o EmitOutput(output_path, "icf_overrides_prod_json_b64",
                                 B64Encode(overrides_json))
                   \o EmitOutput(output_path, "icf_template_status", status),
                 !.pc = "done", !.exit = 0]

InitPrep ==
  /\ \E files \in SUBSET PrepUniverse : prep = [InitPrepRun EXCEPT !.files = files]
  /\ nextNumber = 0 /\ tracked = {} /\ run = Idle
  /\ fs = Idle /\ walk = Idle /\ sel = Idle /\ parse = Idle /\ job = Idle

NextPrep ==
  \/ PrepSelect /\ UNCHANGED <<pubVars, walkVars, selVars, parseVars, jobVars>>
  \/ PrepRead /\ UNCHANGED <<pubVars, walkVars, selVars, parseVars, jobVars>>
  \/ PrepFallback /\ UNCHANGED <<pubVars, walkVars, selVars, parseVars, jobVars>>
  \/ PrepEmit /\ UNCHANGED <<pubVars, walkVars, selVars, parseVars, jobVars>>

SpecPrep == InitPrep /\ [][NextPrep]_vars

(***************************************************************************)
(*              Claims about prepare_icf_template.main                     *)
(***************************************************************************)

\* The values emitted under a name.
C20_Emitted(name) ==
  {prep.emitted[i][2] : i \in {j \in 1..Len(prep.emitted) : prep.emitted[j][1] = name}}

\* C20: status consistency. On every path through selection, read, fallback
\* and parsing, the emitted icf_template_status is "ready" only if the emitted
\* content was read from the selected artifact file and yielded at least one
\* key, "empty" only if that content yielded no key, "fallback" only if the
\* content came from the fallback template file, and "missing" only if no
\* content was obtained.
C20_StatusConsistent ==
  \A status \in C20_Emitted("icf_template_status") :
    /\ status = <<"r", "e", "a", "d", "y">>
         => /\ prep.source = "artifact"
            /\ prep.content # NoContent
            /\ prep.overrides # NotParsed /\ Len(prep.overrides) >= 1
    /\ status = <<"e", "m", "p", "t", "y">>
         => /\ prep.source = "artifact"
            /\ prep.overrides = <<>>
    /\ status = <<"f", "a", "l", "l", "b", "a", "c", "k">>
         => prep.source = "fallback"
    /\ status = <<"m", "i", "s", "s", "i", "n", "g">>
         => prep.content = NoContent

====
